---------------------------- MODULE Spec2Model ----------------------------
(***************************************************************************)
(* Signal generation and adaptive confidence engine of kliktrading.        *)
(*                                                                         *)
(* Number representation.  Prices, volumes and scores are integers.  The   *)
(* JavaScript source computes in doubles; a value that is a true fraction  *)
(* (SMA, EMA, RSI, percentage change, stop-loss and target levels) is held *)
(* in fixed point, as an integer count of 1/Scale units.  Comparisons of   *)
(* the detectors against a percentage of a price are cross-multiplied, so  *)
(* they are exact.  A missing value (null) of a detector is the string     *)
(* "null".                                                                 *)
(***************************************************************************)
EXTENDS Integers, Sequences, FiniteSets, TLC

VARIABLES
    stock,      \* generateSMCSignal: the StockData argument
    locals,     \* generateSMCSignal: its local constants after the call
    result,     \* generateSMCSignal: the SignalResult it returned
    pc,         \* "ready" before the call, "done" after it
    memory,     \* ReinforcementModel.memory: symbol -> RLMemory
    lastUpdate, \* the last call of ReinforcementModel.update and the weight it found
    ctxs,       \* encodeState: the RLContext arguments of two calls
    keys,       \* encodeState: the state keys the two calls returned
    loaded,     \* policyFromContext: the Q-table loadQTable returned
    policy,     \* policyFromContext: its response
    snapshot,   \* the persisted Q-table snapshot (ai_weights)
    tradeHistory, \* the stored resolved records (trade_history joined with predictions)
    pairs,      \* train worker: the fetched batch of resolved records
    qtable,     \* train worker: its Q-table
    idx,        \* train worker: position of the next record in the batch
    tpc,        \* train worker: "idle", "loop" or "exited"
    runs,       \* number of train workers started so far
    workers,    \* train endpoint: the worker processes it spawned, each with its own
                \* pairs, qtable, idx and tpc
    args,       \* a direct call of one function: its name and arguments
    ret,        \* that call: the value it returned
    page        \* Home page: lastSignalsRef, toasts raised, trades saved, saves awaited

sigVars == <<stock, locals, result, pc>>
rlVars == <<memory, lastUpdate>>
encVars == <<ctxs, keys>>
polVars == <<loaded, policy>>
trainVars == <<snapshot, tradeHistory, pairs, qtable, idx, tpc, runs, workers>>
callVars == <<args, ret>>
pageVars == <<page>>
vars == <<sigVars, rlVars, encVars, polVars, trainVars, callVars, pageVars>>

-----------------------------------------------------------------------------
(* Bounds and number helpers *)

Scale == 1000
Base == 1000
Step == 2
TrendLen == 250
MaxFlatLen == 24

Max(a, b) == IF a >= b THEN a ELSE b
Min(a, b) == IF a <= b THEN a ELSE b
Abs(a) == IF a < 0 THEN 0 - a ELSE a

\* Math.round(num / den) for den > 0: the nearest integer, halves go up.
MathRound(num, den) == (2 * num + den) \div (2 * den)

RECURSIVE SeqSum(_, _)
SeqSum(s, i) == IF i > Len(s) THEN 0 ELSE s[i] + SeqSum(s, i + 1)

RECURSIVE SeqMax(_, _)
SeqMax(s, i) == IF i >= Len(s) THEN s[i] ELSE Max(s[i], SeqMax(s, i + 1))

RECURSIVE SeqMin(_, _)
SeqMin(s, i) == IF i >= Len(s) THEN s[i] ELSE Min(s[i], SeqMin(s, i + 1))

\* Array.prototype.slice(-a): the last a elements (all of them when fewer).
SliceLast(s, a) == SubSeq(s, Max(0, Len(s) - a) + 1, Len(s))

\* Array.prototype.slice(-a, -b): from a before the end up to b before it.
SliceNeg(s, a, b) == SubSeq(s, Max(0, Len(s) - a) + 1, Len(s) - b)

-----------------------------------------------------------------------------
(* Indicator helpers: xaiLogic.ts calculateSMA, calculateEMA, calculateRSI *)

\* calculateSMA averaging the whole series in place of its last period values
calculateSMA_whole(data, period) ==
    IF Len(data) = 0 THEN 0
    ELSE IF Len(data) < period THEN data[Len(data)] * Scale
    ELSE MathRound(SeqSum(data, 1) * Scale, Len(data))

calculateSMA(data, period) ==
    IF Len(data) = 0 THEN 0
    ELSE IF Len(data) < period THEN data[Len(data)] * Scale
    ELSE LET slice == SliceLast(data, period)
         IN  MathRound(SeqSum(slice, 1) * Scale, Len(slice))

\* for (i = lo; i <= hi; i++) ema = data[i] * k + ema * (1 - k), k = 2/(period+1);
\* the range is halved, and the left half computed first, so that a long
\* series needs no deep recursion.
RECURSIVE EMALoop(_, _, _, _, _)
EMALoop(data, period, lo, hi, ema) ==
    IF lo > hi THEN ema
    ELSE IF lo = hi
        THEN MathRound(2 * data[lo] * Scale + (period - 1) * ema, period + 1)
    ELSE LET mid  == (lo + hi) \div 2
             left == EMALoop(data, period, lo, mid, ema)
         IN  IF left = left THEN EMALoop(data, period, mid + 1, hi, left) ELSE ema

calculateEMA(data, period) ==
    IF Len(data) = 0 THEN 0
    ELSE EMALoop(data, period, 2, Len(data), data[1] * Scale)

RECURSIVE RSIGains(_, _)
RSIGains(data, i) ==
    IF i > Len(data) THEN 0
    ELSE LET diff == data[i] - data[i - 1]
         IN  (IF diff > 0 THEN diff ELSE 0) + RSIGains(data, i + 1)

RECURSIVE RSILosses(_, _)
RSILosses(data, i) ==
    IF i > Len(data) THEN 0
    ELSE LET diff == data[i] - data[i - 1]
         IN  (IF diff > 0 THEN 0 ELSE Abs(diff)) + RSILosses(data, i + 1)

\* calculateRSI answering the neutral default when the average loss is 0
calculateRSI_neutral(data, period) ==
    IF Len(data) < period + 1 THEN 50 * Scale
    ELSE LET start  == Max(1, Len(data) - period) + 1
             gains  == RSIGains(data, start)
             losses == RSILosses(data, start)
         IN  IF losses = 0 THEN 50 * Scale
             ELSE MathRound(100 * Scale * gains, gains + losses)

\* calculateRSI asking for period points in place of period + 1
calculateRSI_short(data, period) ==
    IF Len(data) < period THEN 50 * Scale
    ELSE LET start  == Max(1, Len(data) - period) + 1
             gains  == RSIGains(data, start)
             losses == RSILosses(data, start)
         IN  IF losses = 0 THEN 100 * Scale
             ELSE MathRound(100 * Scale * gains, gains + losses)

calculateRSI(data, period) ==
    IF Len(data) < period + 1 THEN 50 * Scale
    ELSE LET start  == Max(1, Len(data) - period) + 1
             gains  == RSIGains(data, start)
             losses == RSILosses(data, start)
         IN  IF losses = 0 THEN 100 * Scale
             ELSE MathRound(100 * Scale * gains, gains + losses)

-----------------------------------------------------------------------------
(* SMC detection helpers: xaiLogic.ts detectFairValueGap .. detectCHoCH *)

detectFairValueGap(highs, lows) ==
    IF Len(highs) = 0 \/ Len(lows) = 0 THEN FALSE
    ELSE IF Len(highs) < 3 \/ Len(lows) < 3 THEN FALSE
    ELSE LET i == Len(highs) - 3
             prevHigh == highs[i + 1]
             nextLow  == IF i + 3 <= Len(lows) THEN lows[i + 3] ELSE 0
         IN  IF i + 3 > Len(lows) \/ prevHigh = 0 THEN FALSE
             ELSE Abs(nextLow - prevHigh) * 1000 > 5 * Abs(prevHigh)

detectOrderBlock(prices) ==
    IF Len(prices) = 0 \/ Len(prices) < 5 THEN "null"
    ELSE LET lastFive == SliceLast(prices, 5)
             sum      == SeqSum(lastFive, 1)
             recent   == prices[Len(prices)]
         IN  IF recent * Len(lastFive) * 100 > sum * 101 THEN "BULLISH"
             ELSE IF recent * Len(lastFive) * 100 < sum * 99 THEN "BEARISH"
             ELSE "null"

detectVolumeSurge(volumes) ==
    IF Len(volumes) = 0 \/ Len(volumes) < 10 THEN FALSE
    ELSE LET last10 == SliceLast(volumes, 10)
             sum    == SeqSum(last10, 1)
             latest == last10[Len(last10)]
         IN  latest * Len(last10) * 10 > sum * 15

\* detectLiquiditySweep with a window that ends before the penultimate bar
detectLiquiditySweep_before(highs, lows, current) ==
    IF Len(highs) = 0 \/ Len(lows) = 0 THEN "null"
    ELSE IF Len(highs) < 5 \/ Len(lows) < 5 THEN "null"
    ELSE LET recentHigh == SeqMax(SliceNeg(highs, 7, 2), 1)
             recentLow  == SeqMin(SliceNeg(lows, 7, 2), 1)
             penultimateHigh == highs[Len(highs) - 1]
             penultimateLow  == lows[Len(lows) - 1]
         IN  IF current * 1000 > recentHigh * 1001 /\ current < penultimateHigh THEN "BEARISH"
             ELSE IF current * 1000 < recentLow * 999 /\ current > penultimateLow THEN "BULLISH"
             ELSE "null"

detectLiquiditySweep(highs, lows, current) ==
    IF Len(highs) = 0 \/ Len(lows) = 0 THEN "null"
    ELSE IF Len(highs) < 5 \/ Len(lows) < 5 THEN "null"
    ELSE LET recentHigh      == SeqMax(SliceNeg(highs, 6, 1), 1)
             recentLow       == SeqMin(SliceNeg(lows, 6, 1), 1)
             penultimateHigh == highs[Len(highs) - 1]
             penultimateLow  == lows[Len(lows) - 1]
         IN  IF current * 1000 > recentHigh * 1001 /\ current < penultimateHigh
                 THEN "BEARISH"
             ELSE IF current * 1000 < recentLow * 999 /\ current > penultimateLow
                 THEN "BULLISH"
             ELSE "null"

detectMitigationBlock(prices) ==
    IF Len(prices) = 0 \/ Len(prices) < 6 THEN "null"
    ELSE LET last     == prices[Len(prices)]
             prevLow  == SeqMin(SliceNeg(prices, 6, 2), 1)
             prevHigh == SeqMax(SliceNeg(prices, 6, 2), 1)
         IN  IF last * 100 > prevLow * 102 /\ last < prevHigh THEN "BULLISH"
             ELSE IF last * 100 < prevHigh * 98 /\ last > prevLow THEN "BEARISH"
             ELSE "null"

\* detectBreakerBlock comparing with >= and <= in place of > and <
detectBreakerBlock_ge(prices) ==
    IF Len(prices) = 0 \/ Len(prices) < 10 THEN "null"
    ELSE LET prev5    == SliceNeg(prices, 10, 5)
             last5    == SliceLast(prices, 5)
             prevHigh == SeqMax(prev5, 1)
             prevLow  == SeqMin(prev5, 1)
             currHigh == SeqMax(last5, 1)
             currLow  == SeqMin(last5, 1)
         IN  IF currHigh >= prevHigh /\ currLow >= prevLow THEN "BULLISH"
             ELSE IF currLow <= prevLow /\ currHigh <= prevHigh THEN "BEARISH"
             ELSE "null"

detectBreakerBlock(prices) ==
    IF Len(prices) = 0 \/ Len(prices) < 10 THEN "null"
    ELSE LET prev5    == SliceNeg(prices, 10, 5)
             last5    == SliceLast(prices, 5)
             prevHigh == SeqMax(prev5, 1)
             prevLow  == SeqMin(prev5, 1)
             currHigh == SeqMax(last5, 1)
             currLow  == SeqMin(last5, 1)
         IN  IF currHigh > prevHigh /\ currLow > prevLow THEN "BULLISH"
             ELSE IF currLow < prevLow /\ currHigh < prevHigh THEN "BEARISH"
             ELSE "null"

detectBOS(highs, lows) ==
    IF Len(highs) = 0 \/ Len(lows) = 0 THEN "null"
    ELSE IF Len(highs) < 6 \/ Len(lows) < 6 THEN "null"
    ELSE LET prevHigh == highs[Len(highs) - 2]
             currHigh == highs[Len(highs)]
             prevLow  == lows[Len(lows) - 2]
             currLow  == lows[Len(lows)]
         IN  IF currHigh * 1000 > prevHigh * 1002 THEN "BULLISH"
             ELSE IF currLow * 1000 < prevLow * 998 THEN "BEARISH"
             ELSE "null"

\* detectCHoCH comparing the last bar with the bar just before it
detectCHoCH_previous(highs, lows) ==
    IF Len(highs) = 0 \/ Len(lows) = 0 THEN "null"
    ELSE IF Len(highs) < 8 \/ Len(lows) < 8 THEN "null"
    ELSE LET lastHigh       == highs[Len(highs)]
             secondLastHigh == highs[Len(highs) - 1]
             lastLow        == lows[Len(lows)]
             secondLastLow  == lows[Len(lows) - 1]
             brokeHigh      == lastHigh * 1000 > secondLastHigh * 1001
             brokeLow       == lastLow * 1000 < secondLastLow * 999
         IN  IF brokeHigh /\ ~brokeLow THEN "BULLISH"
             ELSE IF brokeLow /\ ~brokeHigh THEN "BEARISH"
             ELSE "null"

detectCHoCH(highs, lows) ==
    IF Len(highs) = 0 \/ Len(lows) = 0 THEN "null"
    ELSE IF Len(highs) < 8 \/ Len(lows) < 8 THEN "null"
    ELSE LET lastHigh       == highs[Len(highs)]
             secondLastHigh == highs[Len(highs) - 2]
             lastLow        == lows[Len(lows)]
             secondLastLow  == lows[Len(lows) - 2]
             brokeHigh      == lastHigh * 1000 > secondLastHigh * 1001
             brokeLow       == lastLow * 1000 < secondLastLow * 999
         IN  IF brokeHigh /\ ~brokeLow THEN "BULLISH"
             ELSE IF brokeLow /\ ~brokeHigh THEN "BEARISH"
             ELSE "null"

-----------------------------------------------------------------------------
(* SMC confidence engine: computeSMCConfidence, getTrendBias, getFibZone *)

\* computeSMCConfidence counting a mitigation block only when no breaker
\* block fires
computeSMCConfidence_exclusive(inputs) ==
    LET score ==
              (IF inputs.bos = "BULLISH" \/ inputs.bos = "BEARISH" THEN 22 ELSE 0)
            + (IF inputs.choch = "BULLISH" \/ inputs.choch = "BEARISH" THEN 20 ELSE 0)
            + (IF inputs.liquiditySweep # "null" THEN 12 ELSE 0)
            + (IF inputs.volumeSurge THEN 10 ELSE 0)
            + (IF inputs.orderBlock # "null" THEN 10 ELSE 0)
            + (IF inputs.mitigation # "null" /\ inputs.breaker = "null" THEN 8 ELSE 0)
            + (IF inputs.breaker # "null" THEN 6 ELSE 0)
            + (IF inputs.hasFVG THEN 5 ELSE 0)
            + (IF inputs.fibZone = "DISCOUNT" /\ inputs.trendBias = "BULLISH" THEN 10 ELSE 0)
            + (IF inputs.fibZone = "PREMIUM" /\ inputs.trendBias = "BEARISH" THEN 10 ELSE 0)
    IN  Min(score, 99)

computeSMCConfidence(inputs) ==
    LET score ==
              (IF inputs.bos = "BULLISH" \/ inputs.bos = "BEARISH" THEN 22 ELSE 0)
            + (IF inputs.choch = "BULLISH" \/ inputs.choch = "BEARISH" THEN 20 ELSE 0)
            + (IF inputs.liquiditySweep # "null" THEN 12 ELSE 0)
            + (IF inputs.volumeSurge THEN 10 ELSE 0)
            + (IF inputs.orderBlock # "null" THEN 10 ELSE 0)
            + (IF inputs.mitigation # "null" THEN 8 ELSE 0)
            + (IF inputs.breaker # "null" THEN 6 ELSE 0)
            + (IF inputs.hasFVG THEN 5 ELSE 0)
            + (IF inputs.fibZone = "DISCOUNT" /\ inputs.trendBias = "BULLISH" THEN 10 ELSE 0)
            + (IF inputs.fibZone = "PREMIUM" /\ inputs.trendBias = "BEARISH" THEN 10 ELSE 0)
    IN  Min(score, 99)

getTrendBias(bos, choch) ==
    IF bos = "BULLISH" \/ choch = "BULLISH" THEN "BULLISH"
    ELSE IF bos = "BEARISH" \/ choch = "BEARISH" THEN "BEARISH"
    ELSE "NEUTRAL"

\* mid = low + (high - low) * 0.5, compared after doubling both sides
getFibZone(current, lookbackHigh, lookbackLow) ==
    IF 2 * current < lookbackLow + lookbackHigh THEN "DISCOUNT"
    ELSE IF 2 * current > lookbackLow + lookbackHigh THEN "PREMIUM"
    ELSE "NEUTRAL"

-----------------------------------------------------------------------------
(* Signal and computation: xaiLogic.ts generateSMCSignal *)

\* change = prevClose !== 0 ? ((current - prevClose) / prevClose) * 100 : 0
PercentChange(current, prevClose) ==
    IF prevClose = 0 THEN 0
    ELSE IF prevClose > 0 THEN MathRound((current - prevClose) * 100 * Scale, prevClose)
    ELSE 0 - MathRound((current - prevClose) * 100 * Scale, 0 - prevClose)

\* Strong buy indicator (lines 317-319)
indicatorBuy(aboveSMA20, aboveEMA50, emaBullish, rsi, change) ==
    aboveSMA20 /\ aboveEMA50 /\ emaBullish /\ rsi < 70 * Scale /\ change > 0

\* Strong sell indicator (lines 320-322)
indicatorSell(aboveSMA20, aboveEMA50, emaBearish, rsi, change) ==
    ~aboveSMA20 /\ ~aboveEMA50 /\ emaBearish /\ rsi > 30 * Scale /\ change < 0

\* Indicator scoring (lines 324-332)
indicatorScore(indBuy, indSell, aboveSMA20, aboveEMA50, emaBullish, rsi) ==
      (IF indBuy THEN 28 ELSE 0)
    + (IF indSell THEN 28 ELSE 0)
    + (IF aboveSMA20 /\ aboveEMA50 THEN 6 ELSE 0)
    + (IF emaBullish THEN 4 ELSE 0)
    + (IF rsi < 60 * Scale THEN 2 ELSE 0)
    + (IF rsi > 40 * Scale THEN 2 ELSE 0)

\* finalConfidence adding the two scores without their weights
finalConfidence_unweighted(indScore, smcConfidence) ==
    Min(99, indScore + smcConfidence)

\* finalConfidence with Math.floor in place of Math.round
finalConfidence_floor(indScore, smcConfidence) ==
    Min(99, (indScore * 4 + smcConfidence * 6) \div 10)

\* final confidence: indicators 40%, SMC 60% (lines 348-352)
finalConfidence(indScore, smcConfidence) ==
    Min(99, MathRound(indScore * 4 + smcConfidence * 6, 10))

\* decideSignal with the parentheses of the two gates misplaced: full
\* indicator agreement alone decides
decideSignal_ungated(indBuy, indSell, indScore, smcConfidence, bos, choch, trendBias) ==
    LET smcBias       == trendBias
        smcStrongBull == smcConfidence >= 55 /\ (bos = "BULLISH" \/ choch = "BULLISH")
        smcStrongBear == smcConfidence >= 55 /\ (bos = "BEARISH" \/ choch = "BEARISH")
    IN  IF indBuy \/ (indScore >= 18 /\ (smcBias = "BULLISH" \/ smcStrongBull))
            THEN "BUY"
        ELSE IF indSell \/ (indScore >= 18 /\ (smcBias = "BEARISH" \/ smcStrongBear))
            THEN "SELL"
        ELSE "HOLD"

\* Final signal (lines 354-371)
decideSignal(indBuy, indSell, indScore, smcConfidence, bos, choch, trendBias) ==
    LET smcBias       == trendBias
        smcStrongBull == smcConfidence >= 55 /\ (bos = "BULLISH" \/ choch = "BULLISH")
        smcStrongBear == smcConfidence >= 55 /\ (bos = "BEARISH" \/ choch = "BEARISH")
    IN  IF (indBuy \/ indScore >= 18) /\ (smcBias = "BULLISH" \/ smcStrongBull)
            THEN "BUY"
        ELSE IF (indSell \/ indScore >= 18) /\ (smcBias = "BEARISH" \/ smcStrongBear)
            THEN "SELL"
        ELSE "HOLD"

\* The local constants of one call of generateSMCSignal (lines 274-352).
SignalLocals(s) ==
    LET current  == s.current
        sma20    == calculateSMA(s.prices, 20)
        ema50    == calculateEMA(s.prices, 50)
        ema200   == calculateEMA(s.prices, 200)
        rsi      == calculateRSI(s.prices, 14)
        change   == PercentChange(current, s.previousClose)
        bos      == detectBOS(s.highs, s.lows)
        choch    == detectCHoCH(s.highs, s.lows)
        trend    == getTrendBias(bos, choch)
        lookbackHigh == IF Len(s.highs) # 0 THEN SeqMax(SliceLast(s.highs, 20), 1) ELSE current
        lookbackLow  == IF Len(s.lows) # 0 THEN SeqMin(SliceLast(s.lows, 20), 1) ELSE current
        aboveSMA20 == current * Scale > sma20
        aboveEMA50 == current * Scale > ema50
        emaBullish == ema50 > ema200
        emaBearish == ema50 < ema200
        indBuy   == indicatorBuy(aboveSMA20, aboveEMA50, emaBullish, rsi, change)
        indSell  == indicatorSell(aboveSMA20, aboveEMA50, emaBearish, rsi, change)
        smcIn    == [ bos            |-> bos,
                      choch          |-> choch,
                      orderBlock     |-> detectOrderBlock(s.prices),
                      liquiditySweep |-> detectLiquiditySweep(s.highs, s.lows, current),
                      mitigation     |-> detectMitigationBlock(s.prices),
                      breaker        |-> detectBreakerBlock(s.prices),
                      hasFVG         |-> detectFairValueGap(s.highs, s.lows),
                      volumeSurge    |-> detectVolumeSurge(s.volumes),
                      fibZone        |-> getFibZone(current, lookbackHigh, lookbackLow),
                      trendBias      |-> trend ]
    IN  [ sma20 |-> sma20, ema50 |-> ema50, ema200 |-> ema200, rsi |-> rsi,
          change |-> change,
          aboveSMA20 |-> aboveSMA20, aboveEMA50 |-> aboveEMA50,
          emaBullish |-> emaBullish, emaBearish |-> emaBearish,
          indicatorBuy |-> indBuy, indicatorSell |-> indSell,
          indicatorScore |-> indicatorScore(indBuy, indSell, aboveSMA20, aboveEMA50,
                                            emaBullish, rsi),
          smc |-> smcIn,
          smcConfidence |-> computeSMCConfidence(smcIn) ]

\* current * m / 1000, for a multiplier m given in thousandths
Times(current, m) == (current * m * Scale) \div 1000

\* stoploss (line 374)
stoploss(signal, current) ==
    IF signal = "BUY" THEN Times(current, 985)
    ELSE IF signal = "SELL" THEN Times(current, 1015)
    ELSE current * Scale

\* targets with the SELL targets on the BUY side of the entry
targets_long(signal, current) ==
    IF signal = "BUY" \/ signal = "SELL"
        THEN <<Times(current, 1010), Times(current, 1020), Times(current, 1030)>>
    ELSE <<current * Scale>>

\* targets (lines 375-380)
targets(signal, current) ==
    IF signal = "BUY"
        THEN <<Times(current, 1010), Times(current, 1020), Times(current, 1030)>>
    ELSE IF signal = "SELL"
        THEN <<Times(current, 990), Times(current, 980), Times(current, 970)>>
    ELSE <<current * Scale>>

\* The SignalResult built from the locals (lines 354-402).
SignalResultOf(s, l) ==
    LET signal == decideSignal(l.indicatorBuy, l.indicatorSell, l.indicatorScore,
                               l.smcConfidence, l.smc.bos, l.smc.choch, l.smc.trendBias)
        cur    == s.current
    IN  [ signal     |-> signal,
          stoploss   |-> stoploss(signal, cur),
          targets    |-> targets(signal, cur),
          confidence |-> finalConfidence(l.indicatorScore, l.smcConfidence),
          explanation |->
              [ indicators |-> IF l.indicatorBuy THEN "BUY"
                               ELSE IF l.indicatorSell THEN "SELL" ELSE "Neutral",
                rsi        |-> MathRound(l.rsi, Scale),
                smcBias    |-> l.smc.trendBias,
                bos        |-> IF l.smc.bos = "null" THEN "None" ELSE l.smc.bos,
                choch      |-> IF l.smc.choch = "null" THEN "None" ELSE l.smc.choch,
                ob         |-> IF l.smc.orderBlock = "null" THEN "None" ELSE l.smc.orderBlock,
                fvg        |-> IF l.smc.hasFVG THEN "Yes" ELSE "No",
                volSurge   |-> IF l.smc.volumeSurge THEN "Yes" ELSE "No",
                fibZone    |-> l.smc.fibZone ],
          hitStatus  |-> "ACTIVE",
          entryPrice |-> cur * Scale,
          resolved   |-> FALSE ]

\* generateSMCSignal falling back to the series under `history` when the
\* top-level ones are absent
generateSMCSignal_history(s) ==
    LET h == [ s EXCEPT !.prices = s.history.prices, !.highs = s.history.highs,
                        !.lows = s.history.lows, !.volumes = s.history.volumes ]
    IN  SignalResultOf(h, SignalLocals(h))

generateSMCSignal(s) == SignalResultOf(s, SignalLocals(s))

-----------------------------------------------------------------------------
(* Inputs of generateSMCSignal.  A series of n bars is a straight run that   *)
(* ends at its base value, followed by a tail of freely chosen bars.        *)

Run(n, base, slope, tail) ==
    [ i \in 1..n |->
        IF i > n - Len(tail) THEN tail[i - (n - Len(tail))]
        ELSE base + slope * (i - (n - Len(tail))) ]

Spread == 2
Lens == {0, 3, 10, 16}
Slopes == {0 - Step, 0, Step}
Deltas == {0 - 30, 0 - 2, 0, 2, 30}
WideDeltas == {0 - 30, 0, 30}
Volume == 100

MkStock(n, slope, dp3, dp, dh3, dh1, dl3, dl1, cur, dpc, vol) ==
    [ current       |-> cur,
      previousClose |-> cur + dpc,
      prices  |-> IF n = 0 THEN << >>
                  ELSE Run(n, Base, slope, <<Base + dp3, Base, Base + dp>>),
      highs   |-> IF n = 0 THEN << >>
                  ELSE Run(n, Base + Spread, slope,
                           <<Base + Spread + dh3, Base + Spread, Base + Spread + dh1>>),
      lows    |-> IF n = 0 THEN << >>
                  ELSE Run(n, Base - Spread, slope,
                           <<Base - Spread + dl3, Base - Spread, Base - Spread + dl1>>),
      volumes |-> IF n = 0 THEN << >> ELSE Run(n, Volume, 0, <<vol>>) ]

NoLocals == [ indicatorScore |-> 0 ]
NoResult == [ signal |-> "none" ]
NoMemory == [ sym \in {} |-> 0 ]
NoUpdate == [ symbol |-> "none" ]

NoTable == [ key \in {} |-> <<0, 0, 0>> ]

\* The reward model as constructed with nothing saved: an empty memory.
RewardFresh == memory = NoMemory /\ lastUpdate = NoUpdate

\* No call of generateSMCSignal under way.
SignalIdle ==
    /\ stock = [ current |-> 0 ]
    /\ locals = NoLocals
    /\ result = NoResult
    /\ pc = "idle"

\* No call of encodeState or policyFromContext under way.
EncodeIdle == ctxs = << >> /\ keys = << >>
PolicyIdle == loaded = NoTable /\ policy = [ signal |-> "none" ]

\* No train worker running, no snapshot persisted yet.
WorkerIdle ==
    /\ snapshot = NoTable
    /\ pairs = << >>
    /\ qtable = NoTable
    /\ idx = 0
    /\ tpc = "idle"
    /\ runs = 0
    /\ workers = << >>

\* No train worker running, nothing stored.
TrainIdle == WorkerIdle /\ tradeHistory = << >>

\* The Home page before it is mounted.
NoPage == [ calls |-> 0 ]
PageIdle == page = NoPage

\* No direct call of a function under way.
NoCall == [ fn |-> "none" ]
CallIdle == args = NoCall /\ ret = NoCall

InitSignal ==
    /\ stock \in
        { MkStock(n, slope, dp3, dp, dh3, dh1, dl3, dl1, Base + dc, dpc, vol) :
            n \in Lens, slope \in Slopes, dp3 \in {0, 60}, dp \in Deltas,
            dh3 \in {0, 30}, dh1 \in WideDeltas,
            dl3 \in {0 - 30, 0}, dl1 \in WideDeltas,
            dc \in Deltas, dpc \in {0 - 1, 0, 1}, vol \in {Volume, 3 * Volume} }
    /\ locals = NoLocals
    /\ result = NoResult
    /\ pc = "ready"
    /\ RewardFresh /\ PageIdle /\ EncodeIdle /\ PolicyIdle /\ TrainIdle /\ CallIdle

\* One call result = generateSMCSignal(stock).
Evaluate ==
    /\ pc = "ready"
    /\ locals' = SignalLocals(stock)
    /\ result' = SignalResultOf(stock, locals')
    /\ pc' = "done"
    /\ UNCHANGED <<stock, rlVars, encVars, polVars, trainVars, callVars, pageVars>>

NextSignal == Evaluate

Spec == InitSignal /\ [][NextSignal]_vars

\* C6: histories of TrendLen strictly increasing closes.
InitTrend ==
    /\ stock \in
        { [ current       |-> Base + a + b + dc,
            previousClose |-> Base + a + b + dc + dpc,
            prices  |-> Run(TrendLen, Base, slope, <<Base + a, Base + a + b>>),
            highs   |-> Run(TrendLen, Base + Spread, slope,
                            <<Base + Spread, Base + Spread, Base + Spread + dh1>>),
            lows    |-> Run(TrendLen, Base - Spread, slope,
                            <<Base - Spread, Base - Spread, Base - Spread + dl1>>),
            volumes |-> Run(TrendLen, Volume, 0, <<vol>>) ] :
            slope \in {1, Step, Step + 1}, a \in {1, 10, 30}, b \in {1, 10, 30},
            dc \in {0 - 20, 0, 5, 40}, dpc \in {0 - 1, 0, 1},
            dh1 \in {0, 30}, dl1 \in {0 - 30, 0}, vol \in {Volume, 3 * Volume} }
    /\ locals = NoLocals
    /\ result = NoResult
    /\ pc = "ready"
    /\ RewardFresh /\ PageIdle /\ EncodeIdle /\ PolicyIdle /\ TrainIdle /\ CallIdle

SpecTrend == InitTrend /\ [][NextSignal]_vars

\* C7: flat inputs, every value of every series equal to one positive value.
FlatVals == {1, 7, 100, Base, Base + 500}

InitFlat ==
    /\ stock \in
        { [ current       |-> v,
            previousClose |-> v,
            prices  |-> [ i \in 1..n |-> v ],
            highs   |-> [ i \in 1..n |-> v ],
            lows    |-> [ i \in 1..n |-> v ],
            volumes |-> [ i \in 1..n |-> v ] ] :
            n \in 0..MaxFlatLen, v \in FlatVals }
    /\ locals = NoLocals
    /\ result = NoResult
    /\ pc = "ready"
    /\ RewardFresh /\ PageIdle /\ EncodeIdle /\ PolicyIdle /\ TrainIdle /\ CallIdle

SpecFlat == InitFlat /\ [][NextSignal]_vars

-----------------------------------------------------------------------------
(* Adaptive reward model: rlModel.ts ReinforcementModel.  A rewardWeight is  *)
(* held in hundredths: 100 is the neutral weight 1, a step of 0.05 is 5.   *)

MaxUpdates == 22
Symbols == {"NIFTY", "BTC"}

\* update without the Math.min / Math.max clamps
update_unclamped(mem, symbol, outcome) ==
    LET m == IF symbol \in DOMAIN mem THEN mem[symbol]
             ELSE [ wins |-> 0, losses |-> 0, rewardWeight |-> 100 ]
        n == IF outcome = "WIN"
                THEN [ m EXCEPT !.wins = @ + 1, !.rewardWeight = @ + 5 ]
             ELSE [ m EXCEPT !.losses = @ + 1, !.rewardWeight = @ - 5 ]
    IN  [ sym \in DOMAIN mem \cup {symbol} |-> IF sym = symbol THEN n ELSE mem[sym] ]

\* update(symbol, result), lines 17-33
update(mem, symbol, outcome) ==
    LET m == IF symbol \in DOMAIN mem THEN mem[symbol]
             ELSE [ wins |-> 0, losses |-> 0, rewardWeight |-> 100 ]
        n == IF outcome = "WIN"
                THEN [ m EXCEPT !.wins = @ + 1,
                                !.rewardWeight = Min(@ + 5, 200) ]
             ELSE [ m EXCEPT !.losses = @ + 1,
                             !.rewardWeight = Max(@ - 5, 50) ]
    IN  [ sym \in DOMAIN mem \cup {symbol} |-> IF sym = symbol THEN n ELSE mem[sym] ]

\* getWeight(symbol), lines 35-37
getWeight(mem, symbol) ==
    IF symbol \in DOMAIN mem THEN mem[symbol].rewardWeight ELSE 100

UpdateCount ==
    LET RECURSIVE Count(_)
        Count(S) == IF S = {} THEN 0
                    ELSE LET sym == CHOOSE x \in S : TRUE
                         IN  memory[sym].wins + memory[sym].losses + Count(S \ {sym})
    IN  Count(DOMAIN memory)

InitReward ==
    SignalIdle /\ RewardFresh /\ PageIdle /\ EncodeIdle /\ PolicyIdle /\ TrainIdle /\ CallIdle

\* RL.update(symbol, outcome)
Update(symbol, outcome) ==
    /\ UpdateCount < MaxUpdates
    /\ memory' = update(memory, symbol, outcome)
    /\ lastUpdate' = [ symbol |-> symbol, outcome |-> outcome,
                       before |-> getWeight(memory, symbol) ]
    /\ args' = [ fn |-> "update", symbol |-> symbol, outcome |-> outcome ]
    /\ ret' = [ fn |-> "update" ]
    /\ UNCHANGED <<sigVars, encVars, polVars, trainVars, pageVars>>

\* GetWeight leaving a neutral record behind for a symbol it does not know
GetWeight_create(symbol) ==
    /\ args' = [ fn |-> "getWeight", symbol |-> symbol ]
    /\ ret' = [ fn |-> "getWeight", value |-> getWeight(memory, symbol) ]
    /\ memory' = [ sym \in DOMAIN memory \cup {symbol} |->
                     IF sym \in DOMAIN memory THEN memory[sym]
                     ELSE [ wins |-> 0, losses |-> 0, rewardWeight |-> 100 ] ]
    /\ UNCHANGED <<lastUpdate, sigVars, encVars, polVars, trainVars, pageVars>>

\* RL.getWeight(symbol)
GetWeight(symbol) ==
    /\ args' = [ fn |-> "getWeight", symbol |-> symbol ]
    /\ ret' = [ fn |-> "getWeight", value |-> getWeight(memory, symbol) ]
    /\ UNCHANGED <<rlVars, sigVars, encVars, polVars, trainVars, pageVars>>

NextReward ==
    \/ \E symbol \in Symbols, outcome \in {"WIN", "LOSS"} : Update(symbol, outcome)
    \/ \E symbol \in Symbols : GetWeight(symbol)

SpecReward == InitReward /\ [][NextReward]_vars

-----------------------------------------------------------------------------
(* Adaptive confidence: applyAdaptiveConfidence.  A base confidence is held *)
(* in tenths, a weight in hundredths, so their product is in thousandths.  *)

\* applyAdaptiveConfidence with Math.floor in place of Math.round
applyAdaptiveConfidence_floor(base, rlWeight) ==
    LET adjusted == Min(100 * 1000, Max(0, base * rlWeight))
    IN  adjusted \div 1000

\* adjusted = Math.min(100, Math.max(0, base * rlWeight)); Math.round(adjusted)
applyAdaptiveConfidence(base, rlWeight) ==
    LET adjusted == Min(100 * 1000, Max(0, base * rlWeight))
    IN  MathRound(adjusted, 1000)

BaseSamples ==
    {0 - 2000, 0 - 10, 0 - 5, 0 - 4, 0, 3, 4, 5, 10, 333, 495, 505, 667, 760,
     990, 995, 1000, 1005, 2000}

InitAdaptive ==
    /\ SignalIdle /\ RewardFresh /\ PageIdle /\ EncodeIdle /\ PolicyIdle /\ TrainIdle
    /\ args \in [ fn : {"applyAdaptiveConfidence"}, base : BaseSamples,
                  rlWeight : 50..200 ]
    /\ ret = NoCall

\* applyAdaptiveConfidence(base, rlWeight)
Adapt ==
    /\ args.fn = "applyAdaptiveConfidence"
    /\ ret = NoCall
    /\ ret' = [ fn |-> "applyAdaptiveConfidence",
                value |-> applyAdaptiveConfidence(args.base, args.rlWeight) ]
    /\ UNCHANGED <<args, sigVars, rlVars, encVars, polVars, trainVars, pageVars>>

NextAdaptive == Adapt

SpecAdaptive == InitAdaptive /\ [][NextAdaptive]_vars

-----------------------------------------------------------------------------
(* Tabular policy: rlAgent.ts encodeState, bestAction, policyFromContext.    *)
(* A string built by a template literal is the sequence of its parts; an   *)
(* action value is held in fixed point, in 1/QScale units.                 *)

QScale == 1000

\* The characters of the three trend-bias names.
CharsOf(name) ==
    CASE name = "BULLISH" -> <<"B", "U", "L", "L", "I", "S", "H">>
      [] name = "BEARISH" -> <<"B", "E", "A", "R", "I", "S", "H">>
      [] name = "NEUTRAL" -> <<"N", "E", "U", "T", "R", "A", "L">>

\* String(i) for a bucket index
DigitOf(i) == <<"0", "1", "2", "3", "4", "5", "6", "7", "8", "9">>[i + 1]

\* for (i = 0; i < steps.length; i++) if (v <= steps[i]) return i;
\* return steps.length;   (the index returned is 0-based)
RECURSIVE bucketFrom(_, _, _)
bucketFrom(v, steps, i) ==
    IF i > Len(steps) THEN Len(steps)
    ELSE IF v <= steps[i] THEN i - 1
    ELSE bucketFrom(v, steps, i + 1)

bucket(v, steps) == bucketFrom(v, steps, 1)

encodeState(ctx) ==
    LET r     == bucket(ctx.rsi, <<30, 40, 50, 60, 70>>)
        trend == CharsOf(ctx.trendBias)[1]
        smc   == bucket(ctx.smcConfidence, <<20, 40, 60, 80>>)
    IN  <<"r", DigitOf(r), "_t", trend, "_smc", DigitOf(smc)>>

\* q.indexOf(max): the first index holding max (0-based)
RECURSIVE indexOfFrom(_, _, _)
indexOfFrom(q, v, i) ==
    IF i > Len(q) THEN 0 - 1
    ELSE IF q[i] = v THEN i - 1
    ELSE indexOfFrom(q, v, i + 1)

\* bestAction resolving a tie to the last index (lastIndexOf)
bestAction_last(q) ==
    LET max      == SeqMax(q, 1)
        idx0     == IF q[3] = max THEN 2 ELSE IF q[2] = max THEN 1 ELSE 0
        positive == Max(q[1], 0) + Max(q[2], 0) + Max(q[3], 0)
        total    == IF positive = 0 THEN QScale ELSE positive
    IN  [ action |-> idx0, confidence |-> MathRound(max * 100, total) ]

bestAction(q) ==
    LET max      == SeqMax(q, 1)
        idx0     == indexOfFrom(q, max, 1)
        positive == Max(q[1], 0) + Max(q[2], 0) + Max(q[3], 0)
        total    == IF positive = 0 THEN QScale ELSE positive
    IN  [ action |-> idx0, confidence |-> MathRound(max * 100, total) ]

policyFromContext(table, ctx) ==
    LET state == encodeState(ctx)
        bias  == IF ctx.trendBias = "BULLISH" THEN 2
                 ELSE IF ctx.trendBias = "BEARISH" THEN 0 ELSE 1
        f(m)  == (ctx.smcConfidence * m * QScale) \div 1000
        qvals == IF state \in DOMAIN table THEN table[state]
                 ELSE << f(IF bias = 0 THEN 12 ELSE 7),
                         f(5),
                         f(IF bias = 2 THEN 13 ELSE 8) >>
        best  == bestAction(qvals)
    IN  [ signal     |-> <<"SELL", "HOLD", "BUY">>[best.action + 1],
          confidence |-> best.confidence,
          qvals      |-> qvals,
          state      |-> state,
          mode       |-> IF DOMAIN table # {} THEN "TRAINED" ELSE "BOOTSTRAP" ]

RsiSamples == {30, 31, 40, 41, 50, 51, 60, 61, 70, 71}
SmcSamples == {0, 20, 21, 40, 41, 60, 61, 80, 81, 100}
TrendBiases == {"BULLISH", "BEARISH", "NEUTRAL"}

\* Two contexts to encode.
InitEncode ==
    /\ SignalIdle /\ RewardFresh /\ PageIdle /\ PolicyIdle /\ TrainIdle /\ CallIdle
    /\ ctxs \in { <<a, b>> :
                    a \in [ rsi : RsiSamples, trendBias : TrendBiases,
                            smcConfidence : {20, 21, 80, 81} ],
                    b \in [ rsi : {50}, trendBias : TrendBiases,
                            smcConfidence : SmcSamples ] }
    /\ keys = << >>

\* encodeState(ctxs[1]) and encodeState(ctxs[2])
Encode ==
    /\ keys = << >>
    /\ ctxs # << >>
    /\ keys' = <<encodeState(ctxs[1]), encodeState(ctxs[2])>>
    /\ UNCHANGED <<ctxs, sigVars, rlVars, polVars, trainVars, callVars, pageVars>>

NextEncode == Encode

SpecEncode == InitEncode /\ [][NextEncode]_vars

QSamples == {0 - 2 * QScale, 0 - QScale, 0 - 300, 0, 300, QScale, 2 * QScale}

\* A lookup: the loaded table is empty or holds one row, either the row of
\* the context looked up or that of another state.
InitPolicy ==
    /\ SignalIdle /\ RewardFresh /\ PageIdle /\ TrainIdle /\ CallIdle
    /\ ctxs \in { <<c>> : c \in [ rsi : {50}, trendBias : TrendBiases,
                                  smcConfidence : {0, 1, 20, 70, 100} ] }
    /\ keys = << >>
    /\ loaded \in {NoTable} \cup
                  { [ key \in {encodeState(c)} |-> q ] :
                      c \in [ rsi : {50}, trendBias : {"BULLISH", "NEUTRAL"},
                              smcConfidence : {70} ],
                      q \in [ 1..3 -> QSamples ] }
    /\ policy = [ signal |-> "none" ]

\* Lookup storing the bootstrap vector of an unseen state in the table
Lookup_insert ==
    /\ policy = [ signal |-> "none" ]
    /\ Len(ctxs) = 1
    /\ policy' = policyFromContext(loaded, ctxs[1])
    /\ loaded' = [ key \in DOMAIN loaded \cup {policy'.state} |->
                     IF key \in DOMAIN loaded THEN loaded[key] ELSE policy'.qvals ]
    /\ UNCHANGED <<encVars, sigVars, rlVars, trainVars, callVars, pageVars>>

\* policyFromContext(ctxs[1])
Lookup ==
    /\ policy = [ signal |-> "none" ]
    /\ Len(ctxs) = 1
    /\ policy' = policyFromContext(loaded, ctxs[1])
    /\ UNCHANGED <<loaded, encVars, sigVars, rlVars, trainVars, callVars, pageVars>>

NextPolicy == Lookup

SpecPolicy == InitPolicy /\ [][NextPolicy]_vars

-----------------------------------------------------------------------------
(* Train worker: scripts/trainWorker.js main and rlAgentServer.js.  An       *)
(* optional value (null or undefined when missing) is a sequence of length *)
(* 0 or 1; a missing number is UNDEF, and no number of a context is        *)
(* negative.  Rewards are in 1/QScale units like the action values.        *)

MaxBatch == 2
MaxRuns == 2
UNDEF == 0 - 1

\* the context {} that main substitutes for a missing snapshot
EmptyContext ==
    [ rsi |-> UNDEF, ema50 |-> UNDEF, ema200 |-> UNDEF,
      trendBias |-> "undefined", smcConfidence |-> UNDEF ]

\* rlAgentServer.js stateFromContext, lines 10-18
stateFromContext(ctx) ==
    LET rsiBucket == bucket(IF ctx.rsi = UNDEF THEN 50 ELSE ctx.rsi,
                            <<30, 40, 50, 60, 70>>)
        truthy(x) == x # UNDEF /\ x # 0
        emaBucket == IF truthy(ctx.ema50) /\ truthy(ctx.ema200)
                        THEN (IF ctx.ema50 > ctx.ema200 THEN 2
                              ELSE IF ctx.ema50 < ctx.ema200 THEN 0 ELSE 1)
                     ELSE 1
        smcBucket == bucket(IF ctx.smcConfidence = UNDEF THEN 50 ELSE ctx.smcConfidence,
                            <<20, 40, 60, 80>>)
        trend     == IF ctx.trendBias = "BULLISH" THEN "B"
                     ELSE IF ctx.trendBias = "BEARISH" THEN "S" ELSE "N"
    IN  <<"r", DigitOf(rsiBucket), "_e", DigitOf(emaBucket),
          "_s", DigitOf(smcBucket), "_t", trend>>

\* getQTable / saveQTableSnapshot: the snapshot is read and written whole.
getQTable(store) == store
saveQTableSnapshot(table) == table

\* qUpdate adding old where the update subtracts it
qUpdate_plus(table, state, action, reward, nextState, alphaM, gammaM) ==
    LET withRows == [ key \in DOMAIN table \cup {state, nextState} |->
                        IF key \in DOMAIN table THEN table[key] ELSE <<0, 0, 0>> ]
        old      == withRows[state][action + 1]
        target   == reward + MathRound(gammaM * SeqMax(withRows[nextState], 1), 1000)
        new      == old + MathRound(alphaM * (target + old), 1000)
    IN  [ withRows EXCEPT ![state] = [ @ EXCEPT ![action + 1] = new ] ]

\* qUpdate: rows of zeros for an unseen state and next state, then
\* Q[state][action] += alpha * (reward + gamma * max(Q[nextState]) - Q[state][action]);
\* action is 0-based, alpha and gamma are given in thousandths.
qUpdate(table, state, action, reward, nextState, alphaM, gammaM) ==
    LET withRows == [ key \in DOMAIN table \cup {state, nextState} |->
                        IF key \in DOMAIN table THEN table[key] ELSE <<0, 0, 0>> ]
        old      == withRows[state][action + 1]
        target   == reward + MathRound(gammaM * SeqMax(withRows[nextState], 1), 1000)
        new      == old + MathRound(alphaM * (target - old), 1000)
    IN  [ withRows EXCEPT ![state] = [ @ EXCEPT ![action + 1] = new ] ]

\* The body of the for loop of main, lines 34-49, for one record.
trainOn(table, sample) ==
    IF sample.predictions = << >> THEN table
    ELSE LET pred  == sample.predictions[1]
             ctx   == IF pred.context = << >> THEN EmptyContext
                      ELSE IF pred.context[1].context = << >> THEN EmptyContext
                      ELSE pred.context[1].context[1]
             state == stateFromContext(ctx)
             actionIndex == IF pred.signal = "SELL" THEN 0
                            ELSE IF pred.signal = "HOLD" THEN 1
                            ELSE IF pred.signal = "BUY" THEN 2
                            ELSE 1
             reward == IF sample.reward = << >> THEN 0 ELSE sample.reward[1]
             nextState == state
         IN  qUpdate(table, state, actionIndex, reward, nextState, 100, 950)

\* A null element of the fetched array: reading sample.predictions throws a
\* TypeError, which the catch of the loop body logs.
NullSample == [ null |-> TRUE ]

\* trainStep with a catch that drops the table the batch has built so far
trainStep_reset(table, sample) ==
    IF sample = NullSample THEN NoTable
    ELSE trainOn(table, sample)

\* try { body } catch (err) { console.warn(...) }, lines 34-49: an exception
\* leaves qtable as the earlier records made it.
trainStep(table, sample) ==
    IF sample = NullSample THEN table
    ELSE trainOn(table, sample)

TrainContexts ==
    { [ rsi |-> 65, ema50 |-> 0, ema200 |-> 0,
        trendBias |-> "BULLISH", smcConfidence |-> 70 ] }

Rewards == { <<0 - 2 * QScale>>, <<3 * QScale>> }

Predictions ==
    [ signal  : {"SELL", "HOLD", "BUY"},
      context : {<< >>, <<[ context |-> << >> ]>>}
                \cup { <<[ context |-> <<c>> ]>> : c \in TrainContexts } ]

Samples ==
    {NullSample} \cup
    [ predictions : {<< >>} \cup { <<p>> : p \in Predictions }, reward : Rewards ]

Batches == UNION { [ 1..n -> Samples ] : n \in 0..MaxBatch }

InitTrain ==
    /\ SignalIdle /\ RewardFresh /\ PageIdle /\ EncodeIdle /\ PolicyIdle /\ WorkerIdle /\ CallIdle
    /\ tradeHistory \in Batches

\* main up to the loop: fetch the resolved pairs, exit when there are none,
\* else read the current Q-table.
TrainStart ==
    /\ tpc \in {"idle", "exited"}
    /\ runs < MaxRuns
    /\ runs' = runs + 1
    /\ pairs' = tradeHistory
    /\ IF Len(tradeHistory) = 0
          THEN /\ tpc' = "exited"
               /\ UNCHANGED <<qtable, idx, pageVars>>
          ELSE /\ qtable' = getQTable(snapshot)
               /\ idx' = 1
               /\ tpc' = "loop"
    /\ UNCHANGED <<snapshot, tradeHistory, workers, sigVars, rlVars, encVars, polVars, callVars, pageVars>>

\* one iteration of the for loop
TrainSample ==
    /\ tpc = "loop"
    /\ idx <= Len(pairs)
    /\ qtable' = trainStep(qtable, pairs[idx])
    /\ idx' = idx + 1
    /\ UNCHANGED <<snapshot, tradeHistory, pairs, tpc, runs, workers,
                   sigVars, rlVars, encVars, polVars, callVars, pageVars>>

\* after the loop: persist the snapshot and exit
TrainSave ==
    /\ tpc = "loop"
    /\ idx > Len(pairs)
    /\ snapshot' = saveQTableSnapshot(qtable)
    /\ tpc' = "exited"
    /\ UNCHANGED <<tradeHistory, pairs, qtable, idx, runs, workers,
                   sigVars, rlVars, encVars, polVars, callVars, pageVars>>

NextTrain == TrainStart \/ TrainSample \/ TrainSave

SpecTrain == InitTrain /\ [][NextTrain]_vars

-----------------------------------------------------------------------------
(* Train endpoint: pages/api/train.ts handler.  Every request spawns one     *)
(* worker process running main; the processes share nothing but the stored *)
(* records and the persisted snapshot.                                     *)

MaxWorkers == 2

\* The stored records: one record repeated, with a prediction and its
\* context snapshot or without a prediction.
WorkerBatches ==
    { [ i \in 1..n |-> sample ] :
        n \in 0..MaxBatch,
        sample \in { [ predictions |-> <<[ signal |-> "BUY",
                                           context |-> <<[ context |-> <<c>> ]>> ]>>,
                       reward |-> r ] : c \in TrainContexts, r \in Rewards }
                   \cup { [ predictions |-> << >>, reward |-> <<3 * QScale>> ] } }

InitWorkers ==
    /\ SignalIdle /\ RewardFresh /\ PageIdle /\ EncodeIdle /\ PolicyIdle /\ WorkerIdle /\ CallIdle
    /\ tradeHistory \in WorkerBatches

\* handler: spawn(process.execPath, [workerPath]) and answer 200 at once
Handler ==
    /\ Len(workers) < MaxWorkers
    /\ workers' = Append(workers, [ pairs |-> << >>, qtable |-> NoTable,
                                     idx |-> 0, tpc |-> "started" ])
    /\ UNCHANGED <<snapshot, tradeHistory, pairs, qtable, idx, tpc, runs,
                   sigVars, rlVars, encVars, polVars, callVars, pageVars>>

\* main of worker w up to the loop: fetch the resolved pairs, exit when there
\* are none, else read the current Q-table
WorkerStart(w) ==
    /\ workers[w].tpc = "started"
    /\ workers' = [ workers EXCEPT ![w] =
                      IF Len(tradeHistory) = 0
                         THEN [ @ EXCEPT !.pairs = tradeHistory, !.tpc = "exited" ]
                      ELSE [ pairs |-> tradeHistory, qtable |-> getQTable(snapshot),
                             idx |-> 1, tpc |-> "loop" ] ]
    /\ UNCHANGED <<snapshot, tradeHistory, pairs, qtable, idx, tpc, runs,
                   sigVars, rlVars, encVars, polVars, callVars, pageVars>>

\* one iteration of the for loop of worker w
WorkerSample(w) ==
    /\ workers[w].tpc = "loop"
    /\ workers[w].idx <= Len(workers[w].pairs)
    /\ workers' = [ workers EXCEPT ![w] =
                      [ @ EXCEPT !.qtable = trainStep(@, workers[w].pairs[workers[w].idx]),
                                 !.idx = @ + 1 ] ]
    /\ UNCHANGED <<snapshot, tradeHistory, pairs, qtable, idx, tpc, runs,
                   sigVars, rlVars, encVars, polVars, callVars, pageVars>>

\* worker w after the loop: persist the snapshot and exit
WorkerSave(w) ==
    /\ workers[w].tpc = "loop"
    /\ workers[w].idx > Len(workers[w].pairs)
    /\ snapshot' = saveQTableSnapshot(workers[w].qtable)
    /\ workers' = [ workers EXCEPT ![w] = [ @ EXCEPT !.tpc = "exited" ] ]
    /\ UNCHANGED <<tradeHistory, pairs, qtable, idx, tpc, runs,
                   sigVars, rlVars, encVars, polVars, callVars, pageVars>>

NextWorkers ==
    \/ Handler
    \/ \E w \in DOMAIN workers : WorkerStart(w) \/ WorkerSample(w) \/ WorkerSave(w)

SpecWorkers == InitWorkers /\ [][NextWorkers]_vars

-----------------------------------------------------------------------------
(* Repeated identical calls of qUpdate on one table. *)

MaxRepeats == 6

StateA == stateFromContext(EmptyContext)
StateB == stateFromContext([ rsi |-> 65, ema50 |-> 0, ema200 |-> 0,
                             trendBias |-> "BULLISH", smcConfidence |-> 70 ])

\* The table is empty, or holds a row of another state with a positive
\* value; the row of the state updated does not exist yet.
InitQUpdate ==
    /\ SignalIdle /\ RewardFresh /\ PageIdle /\ EncodeIdle /\ PolicyIdle
    /\ snapshot = NoTable /\ tradeHistory = << >> /\ pairs = << >>
    /\ idx = 0 /\ tpc = "idle" /\ runs = 0 /\ workers = << >>
    /\ qtable \in {NoTable, [ key \in {StateB} |-> <<0, 500, 0>> ]}
    /\ args \in [ fn : {"qUpdate"}, state : {StateA}, action : 0..2,
                  reward : {0 - 2 * QScale, 0, 7, 3 * QScale},
                  nextState : {StateA, StateB},
                  alphaM : {100, 500, 900}, gammaM : {0, 950} ]
    /\ ret = NoCall

\* table = qUpdate(table, state, action, reward, nextState, alpha, gamma)
QUpdate ==
    /\ args.fn = "qUpdate"
    /\ (IF ret = NoCall THEN 0 ELSE ret.n) < MaxRepeats
    /\ qtable' = qUpdate(qtable, args.state, args.action, args.reward,
                         args.nextState, args.alphaM, args.gammaM)
    /\ ret' = [ fn |-> "qUpdate", n |-> (IF ret = NoCall THEN 0 ELSE ret.n) + 1 ]
    /\ UNCHANGED <<args, snapshot, tradeHistory, pairs, idx, tpc, runs, workers,
                   sigVars, rlVars, encVars, polVars, pageVars>>

NextQUpdate == QUpdate

SpecQUpdate == InitQUpdate /\ [][NextQUpdate]_vars

-----------------------------------------------------------------------------
(* Direct calls of computeSMCConfidence: one call on any SMCInputs, then    *)
(* calls on the same inputs with one more detector firing.                 *)

Directions == {"null", "BULLISH", "BEARISH"}
DirectionDetectors ==
    {"bos", "choch", "orderBlock", "liquiditySweep", "mitigation", "breaker"}
FlagDetectors == {"hasFVG", "volumeSurge"}

InitSMC ==
    /\ SignalIdle /\ RewardFresh /\ PageIdle /\ EncodeIdle /\ PolicyIdle /\ TrainIdle
    /\ args \in [ fn : {"computeSMCConfidence"},
                  fired : {"none"},
                  inputs : [ bos : Directions, choch : Directions,
                             orderBlock : Directions, liquiditySweep : Directions,
                             mitigation : Directions, breaker : Directions,
                             hasFVG : BOOLEAN, volumeSurge : BOOLEAN,
                             fibZone : {"PREMIUM", "DISCOUNT", "NEUTRAL"},
                             trendBias : TrendBiases ] ]
    /\ ret = NoCall

\* computeSMCConfidence(inputs)
Score ==
    /\ args.fn = "computeSMCConfidence"
    /\ ret = NoCall
    /\ ret' = [ fn |-> "computeSMCConfidence",
                value |-> computeSMCConfidence(args.inputs) ]
    /\ UNCHANGED <<args, sigVars, rlVars, encVars, polVars, trainVars, pageVars>>

\* computeSMCConfidence({...inputs, [detector]: value}) for a detector that
\* gave no signal
Fire(detector, value) ==
    /\ args.fn = "computeSMCConfidence"
    /\ ret # NoCall
    /\ args.inputs[detector] = (IF detector \in FlagDetectors THEN FALSE ELSE "null")
    /\ args' = [ args EXCEPT !.inputs = [ @ EXCEPT ![detector] = value ],
                             !.fired = detector ]
    /\ ret' = [ fn |-> "computeSMCConfidence",
                value |-> computeSMCConfidence(args'.inputs) ]
    /\ UNCHANGED <<sigVars, rlVars, encVars, polVars, trainVars, pageVars>>

NextSMC ==
    \/ Score
    \/ \E detector \in DirectionDetectors, value \in {"BULLISH", "BEARISH"} :
            Fire(detector, value)
    \/ \E detector \in FlagDetectors : Fire(detector, TRUE)

SpecSMC == InitSMC /\ [][NextSMC]_vars

-----------------------------------------------------------------------------
(* Direct calls of the indicator helpers on every short series, and of      *)
(* calculateRSI with the period 14 of generateSMCSignal on longer ones.    *)

MaxSeriesLen == 4
SeriesVals == {0 - 3, 0, 1, 100}
Periods == {1, 2, 3}

ShortSeries == UNION { [ 1..n -> SeriesVals ] : n \in 0..MaxSeriesLen }

LongSeries ==
    { Run(n, Base, slope, <<Base + a, Base + b>>) :
        n \in {14, 15, 16, 30}, slope \in Slopes, a \in Deltas, b \in Deltas }

InitRSI ==
    /\ SignalIdle /\ RewardFresh /\ PageIdle /\ EncodeIdle /\ PolicyIdle /\ TrainIdle
    /\ args \in [ fn : {"calculateRSI"}, data : ShortSeries, period : Periods ]
                \cup [ fn : {"calculateRSI"}, data : LongSeries, period : {14} ]
    /\ ret = NoCall

\* calculateRSI(data, period)
CallRSI ==
    /\ args.fn = "calculateRSI"
    /\ ret = NoCall
    /\ ret' = [ fn |-> "calculateRSI", value |-> calculateRSI(args.data, args.period) ]
    /\ UNCHANGED <<args, sigVars, rlVars, encVars, polVars, trainVars, pageVars>>

NextRSI == CallRSI

SpecRSI == InitRSI /\ [][NextRSI]_vars

InitAverages ==
    /\ SignalIdle /\ RewardFresh /\ PageIdle /\ EncodeIdle /\ PolicyIdle /\ TrainIdle
    /\ args \in [ fn : {"calculateSMA", "calculateEMA"}, data : ShortSeries,
                  period : Periods \cup {5} ]
    /\ ret = NoCall

\* calculateSMA(data, period)
CallSMA ==
    /\ args.fn = "calculateSMA"
    /\ ret = NoCall
    /\ ret' = [ fn |-> "calculateSMA", value |-> calculateSMA(args.data, args.period) ]
    /\ UNCHANGED <<args, sigVars, rlVars, encVars, polVars, trainVars, pageVars>>

\* calculateEMA(data, period)
CallEMA ==
    /\ args.fn = "calculateEMA"
    /\ ret = NoCall
    /\ ret' = [ fn |-> "calculateEMA", value |-> calculateEMA(args.data, args.period) ]
    /\ UNCHANGED <<args, sigVars, rlVars, encVars, polVars, trainVars, pageVars>>

NextAverages == CallSMA \/ CallEMA

SpecAverages == InitAverages /\ [][NextAverages]_vars

-----------------------------------------------------------------------------
(* The two state encoders on one context: stateFromContext, which the train *)
(* worker writes rows under, and encodeState, which policyFromContext      *)
(* reads rows under.                                                       *)

InitKeys ==
    /\ SignalIdle /\ RewardFresh /\ PageIdle /\ EncodeIdle /\ PolicyIdle /\ TrainIdle
    /\ args \in [ fn : {"stateKeys"},
                  ctx : [ rsi : RsiSamples, ema50 : {0, 120}, ema200 : {0, 100},
                          trendBias : TrendBiases, smcConfidence : SmcSamples ] ]
    /\ ret = NoCall

\* rlAgent.stateFromContext(ctx) in the worker, encodeState(ctx) in the lookup
StateKeys ==
    /\ args.fn = "stateKeys"
    /\ ret = NoCall
    /\ ret' = [ fn |-> "stateKeys",
                written |-> stateFromContext(args.ctx),
                read    |-> encodeState(args.ctx) ]
    /\ UNCHANGED <<args, sigVars, rlVars, encVars, polVars, trainVars, pageVars>>

NextKeys == StateKeys

SpecKeys == InitKeys /\ [][NextKeys]_vars

-----------------------------------------------------------------------------
(* Predict endpoint: pages/api/predict.ts handler.  The explanation string  *)
(* is held as the record of the values it is assembled from.               *)

\* explanation.includes(word) for word BULLISH or BEARISH: the words occur
\* only as the values of SMC:, BOS:, CHoCH: and OB:
includes(explanation, word) ==
    word \in {explanation.smcBias, explanation.bos, explanation.choch, explanation.ob}

\* trendBias of the context (predict.ts line 56, parseTrendBias)
parseTrendBias(explanation) ==
    IF includes(explanation, "BULLISH") THEN "BULLISH"
    ELSE IF includes(explanation, "BEARISH") THEN "BEARISH"
    ELSE "NEUTRAL"

\* the RL context of lines 52-59
contextOf(baseline) ==
    [ rsi |-> baseline.explanation.rsi,
      ema50 |-> 0,
      ema200 |-> 0,
      trendBias |-> parseTrendBias(baseline.explanation),
      smcConfidence |-> baseline.confidence ]

InitPredict == InitSignal

\* handler: baseline = generateSMCSignal(...), context, rl = policyFromContext(context)
Predict ==
    /\ pc = "ready"
    /\ locals' = SignalLocals(stock)
    /\ result' = SignalResultOf(stock, locals')
    /\ ctxs' = <<contextOf(result')>>
    /\ policy' = policyFromContext(loaded, ctxs'[1])
    /\ pc' = "done"
    /\ UNCHANGED <<stock, keys, loaded, rlVars, trainVars, callVars, pageVars>>

NextPredict == Predict

SpecPredict == InitPredict /\ [][NextPredict]_vars

-----------------------------------------------------------------------------
(* Home page: loadData builds a stock per symbol and hands it to            *)
(* maybeNotifyAndSave. Prices are whole numbers; stoploss and targets are   *)
(* kept in thousandths of a price unit, so that prev * 0.991 is prev * 991. *)

MaxCalls == 3

\* maybeNotifyAndSave: `normalizedSignal`.
normalizeSignal(signal) ==
    IF signal = "BUY" \/ signal = "SELL" THEN signal
    ELSE IF signal = "long" THEN "BUY"
    ELSE IF signal = "short" THEN "SELL"
    ELSE "HOLD"

\* loadData: the stock it builds from the signal and the previous close.
stockDisplay(signal, prev, price) ==
    [ signal   |-> signal,
      price    |-> price,
      stoploss |-> IF signal = "BUY" THEN prev * 991
                   ELSE IF signal = "SELL" THEN prev * 1009
                   ELSE prev * 1000,
      targets  |-> IF signal = "BUY" THEN <<prev * 1010, prev * 1020, prev * 1030>>
                   ELSE IF signal = "SELL" THEN <<prev * 990, prev * 980, prev * 970>>
                   ELSE <<prev * 1000>> ]

\* maybeNotifyAndSave: `status` (an array is truthy, a stoploss of 0 is not).
tradeStatus(trade, currentPrice) ==
    IF currentPrice * 1000 >= SeqMax(trade.targets, 1) THEN "target_hit"
    ELSE IF trade.stoploss # 0 /\ currentPrice * 1000 <= trade.stoploss THEN "stop_loss"
    ELSE "active"

\* A variant that leaves the last-signal record as it was.
recordSignal_skip(lastSignals, symbol, normalizedSignal) == lastSignals

\* maybeNotifyAndSave: lastSignalsRef.current[symbol] = normalizedSignal.
recordSignal(lastSignals, symbol, normalizedSignal) ==
    [ lastSignals EXCEPT ![symbol] = normalizedSignal ]

\* The page is mounted: nobody or somebody is logged in, the last-signal
\* record is empty or was loaded from localStorage.
InitNotify ==
    /\ SignalIdle /\ RewardFresh /\ EncodeIdle /\ PolicyIdle /\ TrainIdle /\ CallIdle
    /\ page \in [ calls       : {0},
                  user        : BOOLEAN,
                  lastSignals : { [ sym \in Symbols |-> "none" ],
                                  [ sym \in Symbols |-> IF sym = "NIFTY" THEN "HOLD" ELSE "none" ] },
                  toasts      : {0},
                  pending     : { << >> },
                  saved       : {0},
                  last        : { NoCall } ]

\* maybeNotifyAndSave up to its first awaited step: the duplicate check, the
\* last-signal record, the toast, the outcome fed to the reward model, and
\* the save that is then awaited.
MaybeNotifyAndSave(symbol, trade, prevClose, currentPrice) ==
    LET normalizedSignal == normalizeSignal(trade.signal)
        status == tradeStatus(trade, currentPrice)
        call == [ fn |-> "maybeNotifyAndSave", symbol |-> symbol,
                  signal |-> normalizedSignal, price |-> currentPrice,
                  stoploss |-> trade.stoploss, targets |-> trade.targets ]
    IN  /\ page # NoPage
        /\ page.calls < MaxCalls
        /\ IF page.lastSignals[symbol] = normalizedSignal
              THEN /\ page' = [ page EXCEPT !.calls = @ + 1, !.last = call ]
                   /\ UNCHANGED rlVars
           ELSE IF ~page.user
              THEN /\ page' = [ page EXCEPT
                                  !.calls = @ + 1, !.last = call,
                                  !.lastSignals = recordSignal(@, symbol, normalizedSignal),
                                  !.toasts = @ + 1 ]
                   /\ UNCHANGED rlVars
           ELSE /\ page' = [ page EXCEPT
                               !.calls = @ + 1, !.last = call,
                               !.lastSignals = recordSignal(@, symbol, normalizedSignal),
                               !.toasts = @ + 1,
                               !.pending = Append(@, [ symbol |-> symbol, status |-> status,
                                                       direction |-> IF normalizedSignal = "BUY"
                                                                     THEN "long" ELSE "short" ]) ]
                /\ IF status = "target_hit"
                      THEN /\ memory' = update(memory, symbol, "WIN")
                           /\ lastUpdate' = [ symbol |-> symbol, outcome |-> "WIN",
                                              before |-> getWeight(memory, symbol) ]
                   ELSE IF status = "stop_loss"
                      THEN /\ memory' = update(memory, symbol, "LOSS")
                           /\ lastUpdate' = [ symbol |-> symbol, outcome |-> "LOSS",
                                              before |-> getWeight(memory, symbol) ]
                   ELSE UNCHANGED rlVars
        /\ UNCHANGED <<sigVars, encVars, polVars, trainVars, callVars>>

\* loadData: one symbol of one refresh cycle.
LoadData(symbol, signal, prev, price) ==
    MaybeNotifyAndSave(symbol, stockDisplay(signal, prev, price), prev, price)

\* An awaited saveTradeToSupabase or saveTargetHitToSupabase returns.
SaveCompletes(i) ==
    /\ page # NoPage
    /\ i \in 1..Len(page.pending)
    /\ page' = [ page EXCEPT
                   !.pending = SubSeq(@, 1, i - 1) \o SubSeq(@, i + 1, Len(@)),
                   !.saved = @ + 1 ]
    /\ UNCHANGED <<sigVars, rlVars, encVars, polVars, trainVars, callVars>>

NextNotify ==
    \/ \E symbol \in Symbols, signal \in {"BUY", "SELL", "HOLD"},
          prev \in {0, 100}, price \in {0, 96, 100, 104} :
          LoadData(symbol, signal, prev, price)
    \/ \E i \in 1..MaxCalls : SaveCompletes(i)

SpecNotify == InitNotify /\ [][NextNotify]_vars

\* generateSMCSignal called with highs and lows only: every bar is zero or
\* more, the last three bars of each series are free, the current price is
\* any number.
InitStructure ==
    /\ stock \in
        { [ current       |-> cur,
            previousClose |-> cur,
            prices        |-> << >>,
            highs         |-> IF lens[1] = 0 THEN << >>
                              ELSE Run(lens[1], hp, 0, <<h3, h2, h1>>),
            lows          |-> IF lens[2] = 0 THEN << >>
                              ELSE Run(lens[2], lp, 0, <<l3, l2, l1>>),
            volumes       |-> << >> ] :
            lens \in {<<0, 0>>, <<5, 5>>, <<6, 6>>, <<8, 8>>, <<8, 4>>},
            hp \in {0, 1003}, h3 \in {0, 1000, 1003},
            h2 \in {0, 1000, 1003}, h1 \in {0, 1000, 1002, 1003},
            lp \in {0, 1000}, l3 \in {0, 997, 1000},
            l2 \in {0, 997, 1000}, l1 \in {0, 997, 998, 1000},
            cur \in {0 - 1, 0, 996, 1004} }
    /\ locals = NoLocals
    /\ result = NoResult
    /\ pc = "ready"
    /\ RewardFresh /\ PageIdle /\ EncodeIdle /\ PolicyIdle /\ TrainIdle /\ CallIdle

SpecStructure == InitStructure /\ [][NextSignal]_vars

\* loadData: the StockData it hands to generateSMCSignal. The series are
\* given under `history` only (with bars, or empty as in the search box), so
\* the top-level prices, highs, lows and volumes that generateSMCSignal reads
\* are absent and default to []. prev is a multiple of 1000 here, which keeps
\* prev * 0.985 and the like whole.
stockInput(prev, price, bars) ==
    [ current       |-> price,
      previousClose |-> prev,
      ohlc          |-> [ open |-> (prev * 998) \div 1000, high |-> (price * 1006) \div 1000,
                          low |-> (price * 994) \div 1000, close |-> price ],
      history       |-> IF bars
                        THEN [ prices  |-> <<(prev * 985) \div 1000, (prev * 992) \div 1000,
                                             (prev * 1002) \div 1000, (prev * 998) \div 1000,
                                             prev, price>>,
                               highs   |-> <<(prev * 1010) \div 1000, (prev * 1008) \div 1000,
                                             (prev * 1005) \div 1000, (prev * 1003) \div 1000,
                                             (prev * 1002) \div 1000, (price * 1006) \div 1000>>,
                               lows    |-> <<(prev * 980) \div 1000, (prev * 985) \div 1000,
                                             (prev * 992) \div 1000, (prev * 995) \div 1000,
                                             (prev * 997) \div 1000, (price * 994) \div 1000>>,
                               volumes |-> <<100000, 150000, 220000, 300000, 390000, 450000>> ]
                        ELSE [ prices |-> << >>, highs |-> << >>, lows |-> << >>,
                               volumes |-> << >> ],
      prices        |-> << >>,
      highs         |-> << >>,
      lows          |-> << >>,
      volumes       |-> << >> ]

\* The live price of a symbol as loadData finds it: no quote at all (0, 0),
\* a previous close without a price, or both.
InitLoad ==
    /\ stock \in { stockInput(prev, price, bars) :
                     prev \in {0 - 1000, 0, 1000, 2000},
                     price \in {0 - 1000, 0, 1, 970, 990, 1000, 1010, 1030, 2000, 3000},
                     bars \in BOOLEAN }
    /\ locals = NoLocals
    /\ result = NoResult
    /\ pc = "ready"
    /\ RewardFresh /\ PageIdle /\ EncodeIdle /\ PolicyIdle /\ TrainIdle /\ CallIdle

\* loadData: smc = generateSMCSignal({...}).
CallSignal ==
    /\ pc = "ready"
    /\ locals' = SignalLocals(stock)
    /\ result' = generateSMCSignal(stock)
    /\ pc' = "done"
    /\ UNCHANGED <<stock, rlVars, encVars, polVars, trainVars, callVars, pageVars>>

NextLoad == CallSignal

SpecLoad == InitLoad /\ [][NextLoad]_vars

-----------------------------------------------------------------------------
(* Properties of generateSMCSignal *)

\* C1 (as claimed): a BUY is never returned while the indicators are in full
\* SELL agreement, and a SELL never while they are in full BUY agreement.
C1_DoubleGate ==
    pc = "done" =>
        /\ result.signal = "BUY" => ~locals.indicatorSell
        /\ result.signal = "SELL" => ~locals.indicatorBuy

\* C2: with a NEUTRAL structure trend bias and a structure confidence below
\* 55 the result is HOLD.
C2_NeutralHolds ==
    (pc = "done" /\ locals.smc.trendBias = "NEUTRAL" /\ locals.smcConfidence < 55)
        => result.signal = "HOLD"

\* C2 witness: the indicator gate is open (full BUY agreement), the structure
\* is NEUTRAL and weak, and the call returned HOLD.
C2_Witness ==
    /\ pc = "done"
    /\ locals.smc.trendBias = "NEUTRAL"
    /\ locals.smcConfidence < 55
    /\ locals.indicatorBuy
    /\ result.signal = "HOLD"

\* C4 (as claimed): the indicator sub-score lies in 0..40.
C4_ScoreRange == pc = "done" => locals.indicatorScore \in 0..40

\* C5: the confidence is the integer nearest to
\* 0.4 * indicatorScore + 0.6 * smcConfidence, capped at 99, and lies in 0..99.
C5_Confidence ==
    pc = "done" =>
        LET x10 == 4 * locals.indicatorScore + 6 * locals.smcConfidence
        IN  /\ result.confidence \in 0..99
            /\ \E r \in 0..100 :
                /\ 10 * r - 5 <= x10
                /\ x10 < 10 * r + 5
                /\ result.confidence = Min(99, r)

\* C5 witness: a call whose blend has a fraction that rounds up.
C5_Witness ==
    /\ pc = "done"
    /\ (4 * locals.indicatorScore + 6 * locals.smcConfidence) % 10 >= 5
    /\ locals.smcConfidence > 0
    /\ result.confidence > 0

IsIncreasing(s) == \A i \in 1..(Len(s) - 1) : s[i] < s[i + 1]

\* The premise of the end-to-end BUY example: TrendLen strictly increasing
\* closes, EMA50 > EMA200, current at least 1% above SMA20 and above the
\* previous close.
TrendPremise ==
    /\ pc = "done"
    /\ Len(stock.prices) = TrendLen
    /\ IsIncreasing(stock.prices)
    /\ locals.emaBullish
    /\ stock.current * Scale * 100 >= 101 * locals.sma20
    /\ stock.current > stock.previousClose

TrendStructure ==
    /\ locals.smc.bos = "BULLISH"
    /\ locals.smc.choch = "BULLISH"
    /\ locals.smc.volumeSurge

\* C6 (as claimed): under the premise indicatorScore >= 28, and with BOS and
\* CHoCH BULLISH and a volume surge the result is BUY with confidence >= 80.
C6_TrendBuys ==
    TrendPremise =>
        /\ locals.indicatorScore >= 28
        /\ TrendStructure => (result.confidence >= 80 /\ result.signal = "BUY")

\* C6 (amended): under the premise the average loss is 0, so RSI is 100, there
\* is no full BUY agreement, indicatorScore is at most 12 and the result is
\* HOLD; with BOS and CHoCH BULLISH and a volume surge the confidence stays
\* below 80.
C6_TrendHolds ==
    TrendPremise =>
        /\ locals.rsi = 100 * Scale
        /\ ~locals.indicatorBuy
        /\ locals.indicatorScore <= 12
        /\ result.signal = "HOLD"
        /\ TrendStructure => result.confidence < 80

\* C6 witness: the premise with BOS and CHoCH BULLISH and a volume surge.
C6_Witness == TrendPremise /\ TrendStructure /\ result.signal = "HOLD"

IsFlat(s) ==
    /\ s.current > 0
    /\ s.previousClose = s.current
    /\ \A i \in 1..Len(s.prices) :
        /\ s.prices[i] = s.current
        /\ s.highs[i] = s.current
        /\ s.lows[i] = s.current
        /\ s.volumes[i] = s.current

NoDetectorFires ==
    /\ locals.smc.bos = "null"
    /\ locals.smc.choch = "null"
    /\ locals.smc.orderBlock = "null"
    /\ locals.smc.liquiditySweep = "null"
    /\ locals.smc.mitigation = "null"
    /\ locals.smc.breaker = "null"
    /\ ~locals.smc.hasFVG
    /\ ~locals.smc.volumeSurge

\* C7 (as claimed): on a flat input of any length no detector fires, RSI is
\* 50 and the result is HOLD with a low confidence (at most 6).
C7_FlatNeutralRSI ==
    (pc = "done" /\ IsFlat(stock)) =>
        /\ NoDetectorFires
        /\ locals.rsi = 50 * Scale
        /\ result.signal = "HOLD"
        /\ result.confidence <= 6

\* C7 (amended): on a flat input no detector fires, RSI is 50 with fewer than
\* 15 points and 100 with 15 or more, and the result is HOLD with a
\* confidence of at most 6.
C7_FlatHolds ==
    (pc = "done" /\ IsFlat(stock)) =>
        /\ NoDetectorFires
        /\ locals.rsi = (IF Len(stock.prices) < 15 THEN 50 ELSE 100) * Scale
        /\ result.signal = "HOLD"
        /\ result.confidence <= 6

\* C7 witness: a flat input of 15 or more points, after the call.
C7_Witness ==
    /\ pc = "done"
    /\ IsFlat(stock)
    /\ Len(stock.prices) >= 15
    /\ locals.rsi = 100 * Scale
    /\ result.signal = "HOLD"

-----------------------------------------------------------------------------
(* Properties of the adaptive reward model *)

\* C8: every stored rewardWeight lies in [0.5, 2.0]; a WIN leaves the weight
\* 0.05 higher or pinned at 2.0, a LOSS leaves it 0.05 lower or pinned at
\* 0.5; WINs alone reach 2.0 and LOSSes alone reach 0.5.
C8_WeightBounds ==
    /\ \A sym \in DOMAIN memory :
        /\ memory[sym].rewardWeight \in 50..200
        /\ (memory[sym].losses = 0 /\ memory[sym].wins >= 20)
              => memory[sym].rewardWeight = 200
        /\ (memory[sym].wins = 0 /\ memory[sym].losses >= 10)
              => memory[sym].rewardWeight = 50
    /\ lastUpdate # NoUpdate =>
        LET before == lastUpdate.before
            after  == memory[lastUpdate.symbol].rewardWeight
        IN  /\ lastUpdate.outcome = "WIN" =>
                /\ after = before + 5 \/ after = 200
                /\ after >= before
            /\ lastUpdate.outcome = "LOSS" =>
                /\ after = before - 5 \/ after = 50
                /\ after <= before

\* C8 witness: a WIN found the weight at the ceiling and left it there.
C8_Witness ==
    /\ lastUpdate # NoUpdate
    /\ lastUpdate.outcome = "WIN"
    /\ lastUpdate.before = 200
    /\ memory[lastUpdate.symbol].rewardWeight = 200

-----------------------------------------------------------------------------
(* Properties of the tabular policy *)

BucketOf(v, steps) == Cardinality({ i \in 1..Len(steps) : v > steps[i] })

\* C3 (as claimed): two contexts that differ in trend bias, in RSI bucket or
\* in structure-confidence bucket never get the same state key.
C3_CollisionFree ==
    (keys # << >> /\ keys[1] = keys[2]) =>
        /\ ctxs[1].trendBias = ctxs[2].trendBias
        /\ BucketOf(ctxs[1].rsi, <<30, 40, 50, 60, 70>>)
             = BucketOf(ctxs[2].rsi, <<30, 40, 50, 60, 70>>)
        /\ BucketOf(ctxs[1].smcConfidence, <<20, 40, 60, 80>>)
             = BucketOf(ctxs[2].smcConfidence, <<20, 40, 60, 80>>)

\* C9 (as claimed): the action is the index of a maximal value, the
\* confidence is round(100 * max(best, 0) / D) with D the sum of the positive
\* parts (1 when that sum is 0), and it lies in 0..100.
C9_BestAction ==
    policy.signal # "none" =>
        LET q    == policy.qvals
            a    == CHOOSE i \in 1..3 : <<"SELL", "HOLD", "BUY">>[i] = policy.signal
            sum  == Max(q[1], 0) + Max(q[2], 0) + Max(q[3], 0)
            D    == IF sum = 0 THEN QScale ELSE sum
        IN  /\ \A i \in 1..3 : q[a] >= q[i]
            /\ policy.confidence = MathRound(100 * Max(q[a], 0), D)
            /\ policy.confidence \in 0..100

-----------------------------------------------------------------------------
(* Properties of the train worker *)

\* A record with no joined prediction, or whose prediction carries no
\* context snapshot.
Malformed(sample) ==
    \/ sample = NullSample
    \/ sample.predictions = << >>
    \/ sample.predictions[1].context = << >>
    \/ sample.predictions[1].context[1].context = << >>

\* C10 (as claimed): processing a malformed record leaves the Q-table as it
\* was, and the loop goes on with the next record.
C10_MalformedSkipped ==
    [][ (tpc = "loop" /\ idx <= Len(pairs) /\ Malformed(pairs[idx]))
            => (qtable' = qtable /\ tpc' = "loop" /\ idx' = idx + 1) ]_vars

\* The table after the first n records of a batch, taken in input order: a
\* record that raises an exception contributes nothing, every other record
\* contributes the body of the loop.
RECURSIVE Replay(_, _, _)
Replay(table, batch, n) ==
    IF n = 0 THEN table
    ELSE LET before == Replay(table, batch, n - 1)
         IN  IF batch[n] = NullSample THEN before ELSE trainOn(before, batch[n])

\* C11: an exception on one record does not abort the batch. The step that
\* raises it keeps the Q-table and moves on to the next record; the Q-table
\* in the loop is always the replay, in input order, of the records before
\* idx on the table loaded at the start; the snapshot is written only by the
\* step that ends the loop, after the last record, and receives the replay
\* of the whole batch.
C11_BatchCompletes ==
    [][ /\ (tpc = "loop" /\ idx <= Len(pairs) /\ pairs[idx] = NullSample)
            => (tpc' = "loop" /\ idx' = idx + 1 /\ qtable' = qtable)
        /\ tpc' = "loop"
            => qtable' = Replay(getQTable(snapshot'), pairs', idx' - 1)
        /\ (tpc = "loop" /\ tpc' # "loop")
            => /\ idx = Len(pairs) + 1
               /\ snapshot' = Replay(snapshot, pairs, Len(pairs))
        /\ snapshot' # snapshot => (tpc = "loop" /\ tpc' = "exited")
      ]_vars

\* C11 witness: the second record of a batch raised an exception after the
\* first one had changed the Q-table; the worker finished and the saved
\* snapshot holds the first record's update.
C11_Witness ==
    /\ tpc = "exited"
    /\ runs = 1
    /\ Len(pairs) = 2
    /\ pairs[1] # NullSample
    /\ pairs[1].predictions # << >>
    /\ pairs[2] = NullSample
    /\ snapshot = trainOn(NoTable, pairs[1])
    /\ snapshot # NoTable


\* The row of a state in a table, a row of zeros when the table has none.
RowOf(table, state) == IF state \in DOMAIN table THEN table[state] ELSE <<0, 0, 0>>

\* C12: one call of qUpdate adds alpha * (reward + gamma * max(Q[nextState])
\* - Q[state][action]) to Q[state][action], to the nearest unit of the fixed
\* point, and changes nothing else: the other entries of the row and the
\* other rows keep their values, unseen rows start as zeros. While
\* gamma * max(Q[nextState]) is 0 and 0 < alpha < 1, the value never moves
\* away from the reward r and never passes it, it moves strictly closer
\* whenever the exact increment is more than half a unit, and a value equal
\* to r stays at r.
C12_Converges ==
    [][ args.fn = "qUpdate" =>
          LET st   == args.state
              a    == args.action + 1
              r    == args.reward
              row  == RowOf(qtable, st)
              boot == args.gammaM * SeqMax(RowOf(qtable, args.nextState), 1)
              old  == row[a]
              new  == qtable'[st][a]
          IN  /\ DOMAIN qtable' = DOMAIN qtable \cup {st, args.nextState}
              /\ \A key \in DOMAIN qtable' \ {st} : qtable'[key] = RowOf(qtable, key)
              /\ \A i \in (1..3) \ {a} : qtable'[st][i] = row[i]
              /\ boot = 0 =>
                    /\ 2 * Abs(1000 * (new - old) - args.alphaM * (r - old)) <= 1000
                    /\ Abs(r - new) <= Abs(r - old)
                    /\ (r - old) * (r - new) >= 0
                    /\ args.alphaM * Abs(r - old) > 500 => Abs(r - new) < Abs(r - old)
                    /\ old = r => new = r
      ]_vars

\* C12 witness: after three or more identical updates with a positive reward
\* and a next state whose row is all zeros, the value lies strictly between
\* 0 and the reward.
C12_Witness ==
    /\ ret # NoCall
    /\ ret.fn = "qUpdate"
    /\ ret.n >= 3
    /\ args.reward = 3 * QScale
    /\ args.gammaM = 950
    /\ SeqMax(qtable[args.nextState], 1) = 0
    /\ qtable[args.state][args.action + 1] > 0
    /\ qtable[args.state][args.action + 1] < args.reward


\* The table after k workers, one after the other, each replayed the batch.
RECURSIVE ReplayTimes(_, _, _)
ReplayTimes(table, batch, k) ==
    IF k = 0 THEN table
    ELSE Replay(ReplayTimes(table, batch, k - 1), batch, Len(batch))

\* C13 (as claimed): at most one worker at a time is between loading the
\* Q-table and saving it, and once every spawned worker has exited the
\* snapshot holds the updates of all of them.
C13_Serialized ==
    /\ Cardinality({ w \in DOMAIN workers : workers[w].tpc = "loop" }) <= 1
    /\ (\A w \in DOMAIN workers : workers[w].tpc = "exited")
          => snapshot = ReplayTimes(NoTable, tradeHistory, Len(workers))


\* C14: a lookup leaves the Q-table and the persisted snapshot as they were.
\* For a state the table holds it answers with the row of the table; for a
\* state the table lacks it answers with the bootstrap vector, smcConfidence
\* / 100 times 1.2 (BEARISH) or 0.7 for SELL, 0.5 for HOLD and 1.3 (BULLISH)
\* or 0.8 for BUY, and inserts no row.
C14_LookupReadOnly ==
    [][ policy' # policy =>
          LET ctx == ctxs[1]
              smc == ctx.smcConfidence
          IN  /\ loaded' = loaded
              /\ snapshot' = snapshot
              /\ policy'.state \in DOMAIN loaded
                    => policy'.qvals = loaded[policy'.state]
              /\ policy'.state \notin DOMAIN loaded
                    => policy'.qvals =
                         << (smc * QScale * (IF ctx.trendBias = "BEARISH" THEN 12 ELSE 7))
                                \div 1000,
                            (smc * QScale * 5) \div 1000,
                            (smc * QScale * (IF ctx.trendBias = "BULLISH" THEN 13 ELSE 8))
                                \div 1000 >>
      ]_vars

\* C14 witness: a lookup of a state the non-empty table lacks was answered
\* from the bootstrap vector, and the table still lacks the state.
C14_Witness ==
    /\ policy.signal # "none"
    /\ loaded # NoTable
    /\ policy.state \notin DOMAIN loaded
    /\ policy.qvals[2] > 0
    /\ policy.mode = "TRAINED"


\* C15: for every base and every weight in [0.5, 2.0] the value returned is
\* round(base * weight) clamped to [0, 100], an integer in 0..100.
C15_ClampRound ==
    ret.fn = "applyAdaptiveConfidence" =>
        LET rounded == MathRound(args.base * args.rlWeight, 1000)
        IN  /\ ret.value = Max(0, Min(100, rounded))
            /\ ret.value \in 0..100

\* C15 witness: a product above 100 with a fraction was answered with 100.
C15_Witness ==
    /\ ret.fn = "applyAdaptiveConfidence"
    /\ args.base * args.rlWeight > 100 * 1000
    /\ (args.base * args.rlWeight) % 1000 >= 500
    /\ ret.value = 100


\* C16: getWeight answers 1.0 for a symbol that was never updated and the
\* stored weight otherwise, and changes nothing: no record appears, no
\* counter and no weight moves. A record appears only in an update of its
\* symbol, as wins = 0, losses = 0, rewardWeight = 1.0 with that update's
\* adjustment applied.
C16_GetWeightReadOnly ==
    [][ /\ args'.fn = "getWeight" =>
            /\ memory' = memory
            /\ ret'.value = (IF args'.symbol \in DOMAIN memory
                                THEN memory[args'.symbol].rewardWeight
                             ELSE 100)
        /\ \A sym \in DOMAIN memory' \ DOMAIN memory :
            /\ args'.fn = "update"
            /\ args'.symbol = sym
            /\ memory'[sym] = (IF args'.outcome = "WIN"
                                  THEN [ wins |-> 1, losses |-> 0, rewardWeight |-> 105 ]
                               ELSE [ wins |-> 0, losses |-> 1, rewardWeight |-> 95 ])
      ]_vars

\* C16 witness: getWeight was asked for a symbol with no record while another
\* symbol has one with a weight away from 1.0; it answered 1.0 and the
\* symbol still has no record.
C16_Witness ==
    /\ ret.fn = "getWeight"
    /\ args.symbol \notin DOMAIN memory
    /\ ret.value = 100
    /\ \E sym \in DOMAIN memory : memory[sym].rewardWeight # 100


\* x is fraction m / 1000 of the entry price, to within one unit of the
\* fixed point.
IsTimes(x, m) == Abs(1000 * x - m * result.entryPrice) < 1000

\* C17: for current > 0 the entry price is current and the result is created
\* ACTIVE; a BUY has its stoploss at 0.985 of current and its targets at 1.01,
\* 1.02 and 1.03, rising above the entry; a SELL has its stoploss at 1.015 and
\* its targets at 0.99, 0.98 and 0.97, falling below the entry; a HOLD has
\* stoploss = current and the single target current; in every result each
\* target is farther from the entry than the one before it.
C17_Levels ==
    (pc = "done" /\ stock.current > 0) =>
        LET entry == result.entryPrice
            t     == result.targets
        IN  /\ entry = stock.current * Scale
            /\ result.hitStatus = "ACTIVE"
            /\ result.signal = "BUY" =>
                /\ IsTimes(result.stoploss, 985) /\ result.stoploss < entry
                /\ Len(t) = 3
                /\ IsTimes(t[1], 1010) /\ IsTimes(t[2], 1020) /\ IsTimes(t[3], 1030)
                /\ entry < t[1] /\ t[1] < t[2] /\ t[2] < t[3]
            /\ result.signal = "SELL" =>
                /\ IsTimes(result.stoploss, 1015) /\ result.stoploss > entry
                /\ Len(t) = 3
                /\ IsTimes(t[1], 990) /\ IsTimes(t[2], 980) /\ IsTimes(t[3], 970)
                /\ entry > t[1] /\ t[1] > t[2] /\ t[2] > t[3]
            /\ result.signal = "HOLD" =>
                /\ result.stoploss = entry
                /\ t = <<entry>>
            /\ \A k \in 1..(Len(t) - 1) : Abs(t[k] - entry) < Abs(t[k + 1] - entry)

\* C17 witness: a SELL result, with its stoploss above the entry and its
\* last target below the first.
C17_Witness ==
    /\ pc = "done"
    /\ stock.current > 0
    /\ result.signal = "SELL"
    /\ result.stoploss > result.entryPrice
    /\ result.targets[3] < result.targets[1]


\* C18: the structure score never exceeds 99, and the score of the inputs
\* with one more detector firing, everything else unchanged, is never lower
\* than the score before.
C18_Monotone ==
    [][ (args.fn = "computeSMCConfidence" /\ ret # NoCall) =>
            /\ ret.value \in 0..99
            /\ ret'.value \in 0..99
            /\ ret'.value >= ret.value
      ]_vars

\* C18 witness: a breaker block fired on inputs that already scored 99, and
\* the score stayed at 99.
C18_Witness ==
    /\ args.fn = "computeSMCConfidence"
    /\ args.fired = "breaker"
    /\ ret.value = 99
    /\ args.inputs.bos # "null"
    /\ args.inputs.mitigation # "null"


-----------------------------------------------------------------------------
(* Properties of the indicator helpers *)

\* No close of the last period deltas of the series is below the close
\* before it: the average loss is 0.
NoLoss(data, period) ==
    \A k \in (Len(data) - period + 1)..Len(data) : data[k] >= data[k - 1]

\* C19: calculateRSI returns a value in [0, 100]; exactly 50 for a series of
\* fewer than period + 1 points; 100 for a longer one whose last period
\* deltas hold no loss.
C19_RSIRange ==
    ret.fn = "calculateRSI" =>
        /\ ret.value >= 0
        /\ ret.value <= 100 * Scale
        /\ Len(args.data) < args.period + 1 => ret.value = 50 * Scale
        /\ (Len(args.data) >= args.period + 1 /\ NoLoss(args.data, args.period))
              => ret.value = 100 * Scale

\* C19 witness: a series of exactly period + 1 points that never falls and
\* rises at least once was answered with 100.
C19_Witness ==
    /\ ret.fn = "calculateRSI"
    /\ Len(args.data) = args.period + 1
    /\ NoLoss(args.data, args.period)
    /\ args.data[Len(args.data)] > args.data[1]
    /\ ret.value = 100 * Scale

\* C20: calculateSMA and calculateEMA return 0 for an empty series;
\* calculateSMA returns the last element of a non-empty series of fewer
\* than period points and otherwise the mean of its last period values (to
\* the nearest unit of the fixed point).
C20_Averages ==
    ret.fn \in {"calculateSMA", "calculateEMA"} =>
        LET data == args.data
            n    == Len(data)
            p    == args.period
        IN  /\ n = 0 => ret.value = 0
            /\ (ret.fn = "calculateSMA" /\ n > 0 /\ n < p)
                  => ret.value = data[n] * Scale
            /\ (ret.fn = "calculateSMA" /\ n > 0 /\ n >= p)
                  => 2 * Abs(ret.value * p - SeqSum(SubSeq(data, n - p + 1, n), 1) * Scale)
                        <= p

\* C20 witness: calculateSMA of a series longer than the period, whose mean
\* over the last period values differs from its mean over the whole series.
C20_Witness ==
    /\ ret.fn = "calculateSMA"
    /\ Len(args.data) > args.period
    /\ args.period > 1
    /\ ret.value # calculateSMA(args.data, Len(args.data))


-----------------------------------------------------------------------------
(* Properties of the state keys and of the predict endpoint *)

\* C21 (as claimed): the key the worker writes a context's row under is the
\* key the lookup reads for the same context.
C21_KeysAgree == ret.fn = "stateKeys" => ret.written = ret.read

\* C22 (as claimed): the trendBias of the RL context equals the trend bias
\* generateSMCSignal computed from BOS and CHoCH.
C22_ContextBias ==
    (pc = "done" /\ ctxs # << >>) => ctxs[1].trendBias = locals.smc.trendBias


\* C23 (as claimed): across successive runs of the worker every stored
\* record is applied at most once, so whenever a worker has exited the
\* snapshot is the empty table with each stored record applied once.
C23_AppliedOnce ==
    (tpc = "exited" /\ runs >= 1)
        => snapshot = Replay(NoTable, tradeHistory, Len(tradeHistory))

-----------------------------------------------------------------------------
(* Properties of maybeNotifyAndSave *)

\* C24: a call of maybeNotifyAndSave whose normalized signal is the one on
\* record for its symbol raises no toast, awaits no save and leaves the
\* reward memory alone; every call leaves its signal on record within its
\* first step, before any save is awaited.
C24_ActsOnce ==
    [][ page'.calls # page.calls =>
          LET call == page'.last
          IN  /\ page'.lastSignals[call.symbol] = call.signal
              /\ page.lastSignals[call.symbol] = call.signal =>
                    /\ page'.toasts = page.toasts
                    /\ page'.pending = page.pending
                    /\ page'.saved = page.saved
                    /\ page'.lastSignals = page.lastSignals
                    /\ memory' = memory ]_vars

\* A repeated signal arrives while the save of the first call is still awaited.
C24_Witness ==
    /\ page # NoPage
    /\ page.user
    /\ page.calls = 2
    /\ page.toasts = 1
    /\ Len(page.pending) = 1
    /\ page.pending[1].symbol = page.last.symbol
    /\ page.lastSignals[page.last.symbol] = page.last.signal

\* C25: the reward memory changes only for a BUY whose price has risen to
\* its targets or a SELL whose price has fallen to its targets (WIN), or
\* when the price has crossed the stop on the adverse side (LOSS); never
\* for a HOLD.
C25_RealizedOnly ==
    [][ (page'.calls # page.calls /\ memory' # memory) =>
          LET call == page'.last
              outcome == lastUpdate'.outcome
          IN  /\ call.signal # "HOLD"
              /\ outcome = "WIN" =>
                    \/ call.signal = "BUY" /\ call.price * 1000 >= call.targets[1]
                    \/ call.signal = "SELL" /\ call.price * 1000 <= call.targets[1]
              /\ outcome = "LOSS" =>
                    \/ call.signal = "BUY" /\ call.price * 1000 <= call.stoploss
                    \/ call.signal = "SELL" /\ call.price * 1000 >= call.stoploss ]_vars

-----------------------------------------------------------------------------
(* Properties of the structure detectors *)

NonNegative(s) == \A i \in 1..Len(s) : s[i] >= 0

\* C26: with highs and lows that are zero or more, detectLiquiditySweep
\* returns null for every current price, so the structure confidence of
\* generateSMCSignal is the one computed without the sweep weight.
C26_NoSweep ==
    (pc = "done" /\ NonNegative(stock.highs) /\ NonNegative(stock.lows)) =>
        /\ detectLiquiditySweep(stock.highs, stock.lows, stock.current) = "null"
        /\ locals.smc.liquiditySweep = "null"
        /\ locals.smcConfidence =
              computeSMCConfidence([ locals.smc EXCEPT !.liquiditySweep = "null" ])

\* The current price is above 1.001 times the recent high of a full window.
C26_Witness ==
    /\ pc = "done"
    /\ Len(stock.highs) >= 6 /\ Len(stock.lows) >= 6
    /\ SeqMax(SliceNeg(stock.highs, 6, 1), 1) > 0
    /\ stock.current * 1000 > SeqMax(SliceNeg(stock.highs, 6, 1), 1) * 1001

\* C27: on highs and lows that are zero or more, detectBOS and detectCHoCH
\* never report opposite directions, and a strong bullish or bearish
\* structure inside generateSMCSignal agrees with the trend bias.
C27_NoDisagreement ==
    (pc = "done" /\ NonNegative(stock.highs) /\ NonNegative(stock.lows)) =>
        LET bos   == locals.smc.bos
            choch == locals.smc.choch
            smcStrongBull == locals.smcConfidence >= 55
                             /\ (bos = "BULLISH" \/ choch = "BULLISH")
            smcStrongBear == locals.smcConfidence >= 55
                             /\ (bos = "BEARISH" \/ choch = "BEARISH")
        IN  /\ bos = detectBOS(stock.highs, stock.lows)
            /\ choch = detectCHoCH(stock.highs, stock.lows)
            /\ bos = "BULLISH" => choch \in {"BULLISH", "null"}
            /\ bos = "BEARISH" => choch \in {"BEARISH", "null"}
            /\ smcStrongBull => locals.smc.trendBias = "BULLISH"
            /\ smcStrongBear => locals.smc.trendBias = "BEARISH"

\* Eight bars whose last high and last low both break the bar two before:
\* the break of structure is bearish and the change of character is null.
C27_Witness ==
    /\ pc = "done"
    /\ Len(stock.highs) >= 8 /\ Len(stock.lows) >= 8
    /\ locals.smc.bos = "BEARISH"
    /\ locals.smc.choch = "null"
    /\ stock.highs[Len(stock.highs)] * 1000 > stock.highs[Len(stock.highs) - 2] * 1001

\* C28: the confidence returned by generateSMCSignal is at most 76: the
\* indicator score is at most 42, the structure confidence at most 99, and
\* their 40/60 blend rounds to at most 76, below the cap of 99.
C28_AtMost76 ==
    pc = "done" =>
        /\ locals.indicatorScore <= 42
        /\ locals.smcConfidence <= 99
        /\ result.confidence = finalConfidence(locals.indicatorScore, locals.smcConfidence)
        /\ result.confidence <= finalConfidence(42, 99)
        /\ finalConfidence(42, 99) <= 76

\* The full indicator score of 42 together with a strong structure.
C28_Witness ==
    /\ pc = "done"
    /\ locals.indicatorScore = 42
    /\ locals.smcConfidence >= 60
    /\ result.confidence >= 66

-----------------------------------------------------------------------------
(* Properties of the bootstrap policy *)

\* C30: for a state that is not in the Q-table, policyFromContext never
\* returns HOLD: with smcConfidence above 0 it returns BUY for a BULLISH or
\* NEUTRAL bias and SELL for a BEARISH one; with smcConfidence 0 it returns
\* SELL with confidence 0 whatever the bias.
C30_Bootstrap ==
    (policy # [ signal |-> "none" ] /\ policy.state \notin DOMAIN loaded) =>
        LET ctx == ctxs[1]
        IN  /\ policy.signal # "HOLD"
            /\ ctx.smcConfidence > 0 =>
                  policy.signal = IF ctx.trendBias = "BEARISH" THEN "SELL" ELSE "BUY"
            /\ ctx.smcConfidence = 0 =>
                  /\ policy.signal = "SELL"
                  /\ policy.confidence = 0
                  /\ policy.qvals = <<0, 0, 0>>

\* A BULLISH context with smcConfidence 0, looked up while the table holds a
\* row of another state.
C30_Witness ==
    /\ policy # [ signal |-> "none" ]
    /\ loaded # NoTable
    /\ policy.state \notin DOMAIN loaded
    /\ ctxs[1].trendBias = "BULLISH"
    /\ ctxs[1].smcConfidence = 0
    /\ policy.signal = "SELL"

=============================================================================
